---- MODULE Spec2Model ----
(***************************************************************************)
(* Model of the EMA extension of sophys-cli:                               *)
(*   - input_processor.py: the line-rewriting input transformer            *)
(*     (add_detectors, add_metadata, add_plan_target, input_processor);    *)
(*   - run_engine.py: the metadata-inserting RunEngine preprocessor        *)
(*     (create_metadata_inserter_preprocessor) driven by bluesky's         *)
(*     plan_mutator.                                                       *)
(* Python strings are modelled as sequences of one-character strings, so   *)
(* that strip(), startswith(), join() and split() are computed character  *)
(* by character as the code computes them.                                 *)
(***************************************************************************)
EXTENDS Integers, Sequences, FiniteSets, TLC

VARIABLES
    lines,             \* input_processor: the list of lines handed to the transformer
    source,            \* the DataSource contents, one list of names per DataType
    plan_information,  \* the plan_information argument of the last add_detectors call
    op,                \* the function applied last ("none" before any call)
    result,            \* the list of lines the last call returned
    metadata_before_stream_name,  \* run_engine: the arguments of
    metadata_after_stream_name,   \*   create_metadata_inserter_preprocessor
    kwargs_for_runs,   \* _kwargs_for_runs: the kwargs of the runs opened and not closed
    used,              \* the kwargs each close_run of the current plan popped (line 97)
    running,           \* TRUE while the RunEngine runs a plan through plan_mutator
    plan_stack,        \* plan_mutator: the stack of generators, the last one running
    msgs_seen,         \* plan_mutator: the identities of the messages already processed
    next_uid,          \* the identity the next message object gets
    emitted,           \* the messages plan_mutator has yielded to the RunEngine
    original,          \* the messages the plan itself has yielded
    plan_open,         \* the runs the plan has opened and not closed, oldest first
    closes,            \* for each close_run the plan yielded: the run it closes
    n_sent,            \* how many messages the plans have yielded altogether
    namespace,  \* plans.py: the argparse namespace handed to a plan CLI method
    plan,              \* the plan CLI method applied last, with its other arguments
    plan_result,       \* what that method returned, or the exception it raised
    current_partial_list,  \* RangeAction._current_partial_list of the list scan parser
    pause_pending,     \* __init__.py: what manager.status() reports
    environment,       \* how often the environment was destroyed and was created
    submissions,       \* per plan command typed, how often it was submitted to the server
    handler_return,    \* what after_plan_request_failed_callback returned last
    pc                 \* where the submission of the current command stands

ipVars == <<lines, source, plan_information, op, result>>

reVars == <<metadata_before_stream_name, metadata_after_stream_name, kwargs_for_runs,
            used, running, plan_stack, msgs_seen, next_uid, emitted, original,
            plan_open, closes, n_sent>>

plVars == <<namespace, plan, plan_result, current_partial_list>>

rqVars == <<pause_pending, environment, submissions, handler_return, pc>>

vars == <<lines, source, plan_information, op, result,
          metadata_before_stream_name, metadata_after_stream_name, kwargs_for_runs,
          used, running, plan_stack, msgs_seen, next_uid, emitted, original,
          plan_open, closes, n_sent,
          namespace, plan, plan_result, current_partial_list,
          pause_pending, environment, submissions, handler_return, pc>>

----------------------------------------------------------------------------
(* Bounds of the model. *)

MaxLines == 2
MaxDetectors == 2
MaxMsgs == 5        \* messages the plans yield altogether
MaxOpenRuns == 2    \* runs a plan keeps open at the same time

----------------------------------------------------------------------------
(* Python str and list helpers, computed on sequences of characters. *)

None == <<>>
Some(x) == <<x>>

\* The characters str.strip() removes (the ASCII ones that reach a typed line).
IsSpace(c) == c \in {" ", "\t", "\n", "\r"}

RECURSIVE lstrip(_)
lstrip(s) == IF s # <<>> /\ IsSpace(Head(s)) THEN lstrip(Tail(s)) ELSE s

RECURSIVE rstrip(_)
rstrip(s) == IF s # <<>> /\ IsSpace(s[Len(s)]) THEN rstrip(SubSeq(s, 1, Len(s) - 1)) ELSE s

strip(s) == rstrip(lstrip(s))

startswith(s, prefix) == Len(prefix) <= Len(s) /\ SubSeq(s, 1, Len(prefix)) = prefix

RECURSIVE join(_, _)
join(sep, xs) ==
    IF xs = <<>> THEN <<>>
    ELSE IF Len(xs) = 1 THEN xs[1]
    ELSE xs[1] \o sep \o join(sep, Tail(xs))

\* dict.get(key, default) on a dict modelled as a function.
get(d, key, default) == IF key \in DOMAIN d THEN d[key] ELSE default

----------------------------------------------------------------------------
(* The state of the parts of the extension that take no part in a run.     *)

\* No plan CLI method has been called.
PlansIdle ==
    /\ namespace = [k \in {} |-> <<>>]
    /\ plan = [method |-> "none"]
    /\ plan_result = <<>>
    /\ current_partial_list = None

\* No command has been submitted to the server.
RequestIdle ==
    /\ pause_pending = FALSE
    /\ environment = [destroyed |-> 0, created |-> 0]
    /\ submissions = <<>>
    /\ handler_return = None
    /\ pc = "idle"

----------------------------------------------------------------------------
(* The EMA whitelist, in the order of whitelisted_plan_list. *)

PlanInformation(user_name, extra_props) ==
    [user_name |-> user_name, extra_props |-> extra_props]

NoProps == [k \in {} |-> TRUE]
HasDetectors(b) == [k \in {"has_detectors"} |-> b]

S_mov == <<"m", "o", "v">>
S_rmov == <<"r", "m", "o", "v">>
S_read == <<"r", "e", "a", "d">>
S_count == <<"c", "o", "u", "n", "t">>
S_grid_scan == <<"g", "r", "i", "d", "_", "s", "c", "a", "n">>
S_rel_grid_scan == <<"r", "e", "l", "_", "g", "r", "i", "d", "_", "s", "c", "a", "n">>
S_ascan == <<"a", "s", "c", "a", "n">>
S_rscan == <<"r", "s", "c", "a", "n">>
S_mset == <<"m", "s", "e", "t">>
S_jittermap == <<"j", "i", "t", "t", "e", "r", "m", "a", "p">>

whitelisted_plan_list ==
    << PlanInformation(S_mov, HasDetectors(FALSE)),
       PlanInformation(S_rmov, HasDetectors(FALSE)),
       PlanInformation(S_read, HasDetectors(FALSE)),
       PlanInformation(S_count, NoProps),
       PlanInformation(S_grid_scan, NoProps),
       PlanInformation(S_rel_grid_scan, NoProps),
       PlanInformation(S_ascan, NoProps),
       PlanInformation(S_rscan, NoProps),
       PlanInformation(S_mset, NoProps),
       PlanInformation(S_jittermap, NoProps) >>

----------------------------------------------------------------------------
(* input_processor.py *)

\* Mutant of add_detectors: the directive is written in front of the line.
add_detectors_in_front(line, src, info) ==
    IF info # None /\ ~get(info[1].extra_props, "has_detectors", TRUE)
    THEN line
    ELSE <<"-", "d", " ">> \o join(<<" ">>, src.detector) \o <<" ">> \o strip(line)

\* Mutant of add_detectors: the plan's has_detectors is not consulted.
add_detectors_ignoring_plan(line, src, info) ==
    strip(line) \o <<" ", "-", "d", " ">> \o join(<<" ">>, src.detector)

\* plan_information is None (<<>>) or Some(info).
add_detectors(line, src, info) ==
    IF info # None /\ ~get(info[1].extra_props, "has_detectors", TRUE)
    THEN line
    ELSE strip(line) \o <<" ", "-", "d", " ">> \o join(<<" ">>, src.detector)

\* Mutant of add_metadata: the groups are written without the emptiness tests.
add_metadata_with_empty_groups(line, src) ==
    strip(line) \o <<" ", "-", "-", "m", "d", " ">>
    \o <<"R", "E", "A", "D", "_", "B", "E", "F", "O", "R", "E", "=">>
    \o join(<<",">>, src.before) \o <<" ">>
    \o <<"R", "E", "A", "D", "_", "D", "U", "R", "I", "N", "G", "=">>
    \o join(<<",">>, src.during) \o <<" ">>
    \o <<"R", "E", "A", "D", "_", "A", "F", "T", "E", "R", "=">>
    \o join(<<",">>, src.after)

add_metadata(line, src) ==
    LET before_str == join(<<",">>, src.before)
        during_str == join(<<",">>, src.during)
        after_str == join(<<",">>, src.after)
        md1 == IF Len(before_str) # 0
               THEN <<"R", "E", "A", "D", "_", "B", "E", "F", "O", "R", "E", "=">>
                    \o before_str \o <<" ">>
               ELSE <<>>
        md2 == IF Len(during_str) # 0
               THEN md1 \o <<"R", "E", "A", "D", "_", "D", "U", "R", "I", "N", "G", "=">>
                    \o during_str \o <<" ">>
               ELSE md1
        md == IF Len(after_str) # 0
              THEN md2 \o <<"R", "E", "A", "D", "_", "A", "F", "T", "E", "R", "=">>
                   \o after_str \o <<" ">>
              ELSE md2
    IN  IF Len(md) = 0
        THEN line
        ELSE strip(line) \o <<" ", "-", "-", "m", "d", " ">> \o strip(md)

\* Mutant of add_plan_target: the single-detector fallback tests for "no
\* detector" instead of "not exactly one detector".
add_plan_target_any_detector(line, src) ==
    LET main == src.main_detector
        detectors == src.detector
    IN  IF Len(main) = 0 /\ Len(detectors) = 0
        THEN line
        ELSE LET targets == IF Len(main) = 0 THEN detectors ELSE main
                 target == strip(targets[1])
             IN  strip(line)
                 \o <<" ", "-", "-", "p", "l", "a", "n", "_", "t", "a", "r", "g", "e", "t", " ">>
                 \o target
                 \o <<" ", "-", "-", "m", "d", " ", "M", "A", "I", "N", "_",
                      "C", "O", "U", "N", "T", "E", "R", "=">>
                 \o target

add_plan_target(line, src) ==
    LET main == src.main_detector
        detectors == src.detector
    IN  IF Len(main) = 0 /\ Len(detectors) # 1
        THEN line
        ELSE LET targets == IF Len(main) = 0 THEN detectors ELSE main
                 target == strip(targets[1])
             IN  strip(line)
                 \o <<" ", "-", "-", "p", "l", "a", "n", "_", "t", "a", "r", "g", "e", "t", " ">>
                 \o target
                 \o <<" ", "-", "-", "m", "d", " ", "M", "A", "I", "N", "_",
                      "C", "O", "U", "N", "T", "E", "R", "=">>
                 \o target

\* Mutant of line_matches: the needle is the plan name without the blank.
line_matches_without_blank(line, info) ==
    LET needle == info.user_name
        stripped == strip(line)
    IN  startswith(stripped, needle) \/ startswith(stripped, <<"%">> \o needle)

\* line.startswith(needle) or line.startswith("%" + needle), on the stripped line.
line_matches(line, info) ==
    LET needle == info.user_name \o <<" ">>
        stripped == strip(line)
    IN  startswith(stripped, needle) \/ startswith(stripped, <<"%">> \o needle)

\* The nested loops of test_should_process: the first whitelist entry, in
\* whitelist order, that some line matches; None when there is none.
test_should_process(ls, plan_whitelist) ==
    LET hits == {k \in 1..Len(plan_whitelist) :
                    \E i \in 1..Len(ls) : line_matches(ls[i], plan_whitelist[k])}
    IN  IF hits = {} THEN None
        ELSE Some(plan_whitelist[CHOOSE k \in hits : \A j \in hits : k <= j])

input_processor(ls, plan_whitelist, src) ==
    LET found == test_should_process(ls, plan_whitelist)
    IN  IF found = None
        THEN ls
        ELSE [i \in 1..Len(ls) |->
                add_plan_target(add_metadata(add_detectors(ls[i], src, found), src), src)]

----------------------------------------------------------------------------
(* Inputs of the input processor. *)

SampleLines ==
    { <<"a", "s", "c", "a", "n", " ", "m", " ", "1">>,
      <<"%", "a", "s", "c", "a", "n", " ", "m", " ", "1">>,
      <<" ", "m", "o", "v", " ", "x", " ", "1", " ">>,
      <<"%", "m", "o", "v", " ", "x", " ", "1">>,
      <<"s", "u", "p", "e", "r", "_", "s", "c", "a", "n", " ", "w", " ", "w">>,
      <<"c", "o", "u", "n", "t">>,
      <<"%", "c", "o", "u", "n", "t">>,
      <<"r", "m", "o", "v", " ", "x", " ", "1", "\n">>,
      <<"x", " ", "=", " ", "1">>,
      <<"m", "o", "v", "x", " ", "1">>,
      <<"c", "o", "u", "n", "t", " ", "2">> }

SampleInputs == UNION {[1..n -> SampleLines] : n \in 1..MaxLines}

AllDetectors ==
    << <<"a", "b", "c", "1">>, <<"a", "b", "c", "2">>, <<"a", "b", "c", "3">> >>

SampleSources ==
    [ detector : {SubSeq(AllDetectors, 1, n) : n \in 0..MaxDetectors},
      before : {<<>>, << <<"x", "y", "z", "1">> >>},
      during : {<<>>, << <<"m", "n", "o", "1">>, <<"m", "n", "o", "2">> >>},
      after : {<<>>, << <<"r", "s", "t", "1">>, <<"r", "s", "t", "2">> >>},
      main_detector : {<<>>, << <<"a", "b", "c", "2">> >>} ]

SampleInformation ==
    { None,
      Some(PlanInformation(S_ascan, NoProps)),
      Some(PlanInformation(S_ascan, HasDetectors(TRUE))),
      Some(PlanInformation(S_ascan, HasDetectors(FALSE))) }

----------------------------------------------------------------------------
(* The input processor as a state machine: the inputs are drawn in Init,   *)
(* each action applies one function of input_processor.py.                 *)

InitInput ==
    /\ lines \in SampleInputs
    /\ source \in SampleSources
    /\ plan_information = None
    /\ op = "none"
    /\ result = <<>>
    /\ metadata_before_stream_name = "baseline_before"
    /\ metadata_after_stream_name = "baseline_after"
    /\ kwargs_for_runs = <<>>
    /\ used = <<>>
    /\ running = FALSE
    /\ plan_stack = <<>>
    /\ msgs_seen = {}
    /\ next_uid = 1
    /\ emitted = <<>>
    /\ original = <<>>
    /\ plan_open = <<>>
    /\ closes = <<>>
    /\ n_sent = 0
    /\ PlansIdle
    /\ RequestIdle

CallAddDetectors ==
    /\ op = "none"
    /\ Len(lines) = 1
    /\ \E info \in SampleInformation :
        /\ plan_information' = info
        /\ result' = <<add_detectors(lines[1], source, info)>>
    /\ op' = "add_detectors"
    /\ UNCHANGED <<lines, source>>
    /\ UNCHANGED <<reVars, plVars, rqVars>>

CallAddMetadata ==
    /\ op = "none"
    /\ Len(lines) = 1
    /\ result' = <<add_metadata(lines[1], source)>>
    /\ op' = "add_metadata"
    /\ UNCHANGED <<lines, source, plan_information>>
    /\ UNCHANGED <<reVars, plVars, rqVars>>

CallAddPlanTarget ==
    /\ op = "none"
    /\ Len(lines) = 1
    /\ result' = <<add_plan_target(lines[1], source)>>
    /\ op' = "add_plan_target"
    /\ UNCHANGED <<lines, source, plan_information>>
    /\ UNCHANGED <<reVars, plVars, rqVars>>

CallInputProcessor ==
    /\ op = "none"
    /\ result' = input_processor(lines, whitelisted_plan_list, source)
    /\ plan_information' = test_should_process(lines, whitelisted_plan_list)
    /\ op' = "input_processor"
    /\ UNCHANGED <<lines, source>>
    /\ UNCHANGED <<reVars, plVars, rqVars>>

\* The transformer applied to the lines it returned.
CallInputProcessorAgain ==
    /\ op = "input_processor"
    /\ result' = input_processor(result, whitelisted_plan_list, source)
    /\ op' = "input_processor_again"
    /\ lines' = result
    /\ UNCHANGED <<source, plan_information>>
    /\ UNCHANGED <<reVars, plVars, rqVars>>

NextInput ==
    \/ CallAddDetectors
    \/ CallAddMetadata
    \/ CallAddPlanTarget
    \/ CallInputProcessor
    \/ CallInputProcessorAgain

SpecInput == InitInput /\ [][NextInput]_vars

----------------------------------------------------------------------------
(* run_engine.py: the metadata inserter and the plan_mutator driving it.   *)
(* A message is a bluesky Msg: command, obj, kwargs and run key; uid is    *)
(* the identity of the message object (Python's id(msg)).                  *)
(* plan_mutator is bluesky's: it keeps a stack of generators, applies      *)
(* msg_proc once to every message object it has not seen, replaces the     *)
(* message by the returned new_gen (single_gen(msg) when only a tail is    *)
(* returned), runs the tail generator when new_gen is exhausted, and       *)
(* yields every other message unchanged.                                   *)

Msg(command, obj, kwargs) ==
    [command |-> command, obj |-> obj, kwargs |-> kwargs, run |-> 0, uid |-> 0]

NoKwargs == [k \in {} |-> <<>>]

S_det4 == <<"d", "e", "t", "4">>
S_rand == <<"r", "a", "n", "d">>
S_motor1 == <<"m", "o", "t", "o", "r", "1">>

\* The names find_all(name=...) finds; any other name raises in
\* get_device_by_name.
RegisteredDevices == {S_det4, S_rand, S_motor1}

\* str.split(sep) for a one-character separator.
RECURSIVE split(_, _)
split(s, sep) ==
    IF \E j \in 1..Len(s) : s[j] = sep
    THEN LET j == CHOOSE j \in 1..Len(s) : s[j] = sep /\ \A h \in 1..(j - 1) : s[h] # sep
         IN  <<SubSeq(s, 1, j - 1)>> \o split(SubSeq(s, j + 1, Len(s)), sep)
    ELSE <<s>>

\* Mutant of the for loop of __read_plan: the loop ends at the first name that
\* is not found (break instead of continue).
RECURSIVE read_devices_until_unknown(_, _)
read_devices_until_unknown(device_name_list, read_any) ==
    IF device_name_list = <<>>
    THEN [msgs |-> <<>>, read_any |-> read_any]
    ELSE IF Head(device_name_list) \notin RegisteredDevices
    THEN [msgs |-> <<>>, read_any |-> read_any]
    ELSE LET rest == read_devices_until_unknown(Tail(device_name_list), TRUE)
         IN  [msgs |-> <<Msg("read", Some(Head(device_name_list)), NoKwargs)>> \o rest.msgs,
              read_any |-> rest.read_any]

\* The for loop of __read_plan: the read messages and the final read_any.
RECURSIVE read_devices(_, _)
read_devices(device_name_list, read_any) ==
    IF device_name_list = <<>>
    THEN [msgs |-> <<>>, read_any |-> read_any]
    ELSE IF Head(device_name_list) \notin RegisteredDevices
    THEN read_devices(Tail(device_name_list), read_any)
    ELSE LET rest == read_devices(Tail(device_name_list), TRUE)
         IN  [msgs |-> <<Msg("read", Some(Head(device_name_list)), NoKwargs)>> \o rest.msgs,
              read_any |-> rest.read_any]

read_plan(device_name_list, metadata_stream_name) ==
    LET loop == read_devices(device_name_list, FALSE)
    IN  <<Msg("create", None, [name |-> metadata_stream_name])>>
        \o loop.msgs
        \o <<IF loop.read_any THEN Msg("save", None, NoKwargs) ELSE Msg("drop", None, NoKwargs)>>

\* Mutant of __before_plan: the length of READ_BEFORE is not tested.
before_plan_without_length_test(kwargs) ==
    read_plan(split(get(kwargs, "READ_BEFORE", <<>>), ","), metadata_before_stream_name)

\* Mutant of __before_plan: the names are taken from READ_AFTER.
before_plan_reading_after_key(kwargs) ==
    LET device_names_to_read == get(kwargs, "READ_AFTER", <<>>)
    IN  IF Len(device_names_to_read) # 0
        THEN read_plan(split(device_names_to_read, ","), metadata_before_stream_name)
        ELSE <<>>

before_plan(kwargs) ==
    LET device_names_to_read == get(kwargs, "READ_BEFORE", <<>>)
    IN  IF Len(device_names_to_read) # 0
        THEN read_plan(split(device_names_to_read, ","), metadata_before_stream_name)
        ELSE <<>>

\* Mutant of __after_plan: the readings go to the before-stream.
after_plan_into_before_stream(kwargs, msg) ==
    LET device_names_to_read == get(kwargs, "READ_AFTER", <<>>)
    IN  (IF Len(device_names_to_read) # 0
         THEN read_plan(split(device_names_to_read, ","), metadata_before_stream_name)
         ELSE <<>>)
        \o <<msg>>

\* Mutant of __after_plan: the close_run is not yielded again.
after_plan_swallowing(kwargs, msg) ==
    LET device_names_to_read == get(kwargs, "READ_AFTER", <<>>)
    IN  IF Len(device_names_to_read) # 0
        THEN read_plan(split(device_names_to_read, ","), metadata_after_stream_name)
        ELSE <<>>

\* Mutant of __after_plan: the close_run is yielded before the readings.
after_plan_close_first(kwargs, msg) ==
    LET device_names_to_read == get(kwargs, "READ_AFTER", <<>>)
    IN  <<msg>>
        \o (IF Len(device_names_to_read) # 0
            THEN read_plan(split(device_names_to_read, ","), metadata_after_stream_name)
            ELSE <<>>)

after_plan(kwargs, msg) ==
    LET device_names_to_read == get(kwargs, "READ_AFTER", <<>>)
    IN  (IF Len(device_names_to_read) # 0
         THEN read_plan(split(device_names_to_read, ","), metadata_after_stream_name)
         ELSE <<>>)
        \o <<msg>>

\* Mutant of metadata_inserter_preprocessor: close_run reads the newest entry
\* and leaves it in the list.
metadata_inserter_preprocessor_keeping(msg, runs) ==
    IF msg.command = "open_run"
    THEN [new_gen |-> None, tail_gen |-> Some(before_plan(msg.kwargs)),
          runs |-> Append(runs, msg.kwargs), popped |-> <<>>]
    ELSE IF msg.command = "close_run"
    THEN LET kwargs == runs[Len(runs)]
         IN  [new_gen |-> Some(after_plan(kwargs, msg)), tail_gen |-> None,
              runs |-> runs, popped |-> <<kwargs>>]
    ELSE [new_gen |-> None, tail_gen |-> None, runs |-> runs, popped |-> <<>>]

\* Mutant of metadata_inserter_preprocessor: close_run takes the oldest entry
\* (pop(0)) instead of the newest.
metadata_inserter_preprocessor_pop_first(msg, runs) ==
    IF msg.command = "open_run"
    THEN [new_gen |-> None, tail_gen |-> Some(before_plan(msg.kwargs)),
          runs |-> Append(runs, msg.kwargs), popped |-> <<>>]
    ELSE IF msg.command = "close_run"
    THEN LET kwargs == runs[1]
         IN  [new_gen |-> Some(after_plan(kwargs, msg)), tail_gen |-> None,
              runs |-> Tail(runs), popped |-> <<kwargs>>]
    ELSE [new_gen |-> None, tail_gen |-> None, runs |-> runs, popped |-> <<>>]

\* msg_proc: the pair (new_gen, tail_gen) it returns, each None or the
\* messages of the generator, with _kwargs_for_runs after the call and the
\* kwargs a close_run popped.  A close_run is only ever sent while a run is
\* open, so pop() finds an entry.
metadata_inserter_preprocessor(msg, runs) ==
    IF msg.command = "open_run"
    THEN [new_gen |-> None, tail_gen |-> Some(before_plan(msg.kwargs)),
          runs |-> Append(runs, msg.kwargs), popped |-> <<>>]
    ELSE IF msg.command = "close_run"
    THEN LET kwargs == runs[Len(runs)]
         IN  [new_gen |-> Some(after_plan(kwargs, msg)), tail_gen |-> None,
              runs |-> SubSeq(runs, 1, Len(runs) - 1), popped |-> <<kwargs>>]
    ELSE [new_gen |-> None, tail_gen |-> None, runs |-> runs, popped |-> <<>>]

\* plan_mutator's stack entries: the plan itself, or an inserted generator with
\* the messages it has yet to yield and the tail generator cached for it.
ParentPlan == [kind |-> "plan", msgs |-> <<>>, tail |-> None]
Generator(msgs, tail) == [kind |-> "gen", msgs |-> msgs, tail |-> tail]

\* Fresh message objects get fresh identities; a message that already has one
\* (the close_run re-yielded by __after_plan) keeps it.
Stamp(msgs, base) ==
    [i \in 1..Len(msgs) |->
        IF msgs[i].uid = 0 THEN [msgs[i] EXCEPT !.uid = base + i - 1] ELSE msgs[i]]

\* The run the RunEngine files an inserted message under: the run whose
\* open_run or close_run made msg_proc insert it.  (bps.create, bps.read and
\* bps.save carry the default run key, the key of the run being opened or
\* closed.)
FiledUnder(msgs, run) ==
    [i \in 1..Len(msgs) |->
        IF msgs[i].uid = 0 THEN [msgs[i] EXCEPT !.run = run] ELSE msgs[i]]

\* The body of plan_mutator's loop for the message `msg` just obtained, `rest`
\* being the generator stack with that message consumed and `base` the next
\* free identity: msg_proc is applied to a message not seen before, a returned
\* generator is pushed (single_gen(msg) when only a tail is returned),
\* otherwise the message is yielded.
Mutate(msg, rest, base) ==
    IF msg.uid \notin msgs_seen
    THEN LET r == metadata_inserter_preprocessor(msg, kwargs_for_runs)
             new_gen == IF r.tail_gen # None /\ r.new_gen = None
                        THEN Some(<<msg>>) ELSE r.new_gen
             n_new == IF new_gen = None THEN 0 ELSE Len(new_gen[1])
             n_tail == IF r.tail_gen = None THEN 0 ELSE Len(r.tail_gen[1])
             tail == IF r.tail_gen = None THEN None
                     ELSE Some(Stamp(FiledUnder(r.tail_gen[1], msg.run), base + n_new))
         IN  /\ msgs_seen' = msgs_seen \cup {msg.uid}
             /\ kwargs_for_runs' = r.runs
             /\ used' = used \o r.popped
             /\ next_uid' = base + n_new + n_tail
             /\ IF new_gen # None
                THEN /\ plan_stack' = Append(rest, Generator(Stamp(FiledUnder(new_gen[1], msg.run),
                                                                   base), tail))
                     /\ emitted' = emitted
                ELSE /\ plan_stack' = rest
                     /\ emitted' = Append(emitted, msg)
    ELSE /\ plan_stack' = rest
         /\ emitted' = Append(emitted, msg)
         /\ next_uid' = base
         /\ UNCHANGED <<msgs_seen, kwargs_for_runs, used>>

----------------------------------------------------------------------------
(* The RunEngine's bundling of readings into events, as far as the         *)
(* docstring of create_metadata_inserter_preprocessor relies on it: the    *)
(* descriptor of a stream is emitted once per run, with the first event    *)
(* saved to the stream, and a later event of the stream that read other   *)
(* objects makes save raise ("Mismatched objects read").  A save without   *)
(* readings and a drop emit nothing.                                       *)

\* The position of the save or drop that closes the event created at position
\* c of the emitted stream (0 while the event is open).
EventEnd(c) ==
    LET Ends(q) == emitted[q].command \in {"save", "drop"}
    IN  IF \E q \in (c + 1)..Len(emitted) : Ends(q)
        THEN CHOOSE q \in (c + 1)..Len(emitted) :
                Ends(q) /\ \A h \in (c + 1)..(q - 1) : ~Ends(h)
        ELSE 0

\* The objects read in the event created at position c.
EventObjs(c) ==
    {emitted[h].obj[1] : h \in {h \in (c + 1)..(EventEnd(c) - 1) : emitted[h].command = "read"}}

\* The event created at position c was saved with at least one reading.
EventSaved(c) ==
    /\ emitted[c].command = "create"
    /\ EventEnd(c) # 0
    /\ emitted[EventEnd(c)].command = "save"
    /\ EventObjs(c) # {}

\* Some saved event read other objects than an earlier saved event of the same
\* stream of the same run: the RunEngine has raised on its save.
MismatchedObjectsRead ==
    \E c1 \in 1..Len(emitted) :
        /\ EventSaved(c1)
        /\ \E c2 \in (c1 + 1)..Len(emitted) :
            /\ EventSaved(c2)
            /\ emitted[c1].run = emitted[c2].run
            /\ emitted[c1].kwargs.name = emitted[c2].kwargs.name
            /\ EventObjs(c1) # EventObjs(c2)

----------------------------------------------------------------------------
(* The plans handed to the RunEngine: any sequence of open_run, close_run  *)
(* and other messages in which a close_run closes a run that is open.      *)

SampleKwargs ==
    { NoKwargs,
      [k \in {"READ_BEFORE", "READ_AFTER"} |-> <<>>],
      [k \in {"READ_BEFORE", "READ_AFTER"} |->
          IF k = "READ_BEFORE"
          THEN <<"d", "e", "t", "4", ",", "n", "o", "d", "e", "v", ",", "r", "a", "n", "d">>
          ELSE <<"n", "o", "d", "e", "v", ",", "d", "e", "t", "4">>],
      [k \in {"READ_BEFORE", "READ_AFTER"} |->
          IF k = "READ_BEFORE" THEN <<"n", "o", "d", "e", "v">>
          ELSE <<"r", "a", "n", "d", ",", "d", "e", "t", "4">>] }

OtherCommands == {"checkpoint"}

SampleStreamNames == {<<"baseline_before", "baseline_after">>}

\* One name given for both streams.
SameStreamNames == {<<"baseline", "baseline">>}

EngineIdle ==
    /\ kwargs_for_runs = <<>>
    /\ used = <<>>
    /\ running = FALSE
    /\ plan_stack = <<>>
    /\ msgs_seen = {}
    /\ next_uid = 1
    /\ emitted = <<>>
    /\ original = <<>>
    /\ plan_open = <<>>
    /\ closes = <<>>
    /\ n_sent = 0

InputIdle ==
    /\ lines = <<>>
    /\ source = [detector |-> <<>>, before |-> <<>>, during |-> <<>>, after |-> <<>>,
                 main_detector |-> <<>>]
    /\ plan_information = None
    /\ op = "none"
    /\ result = <<>>

\* create_metadata_inserter_preprocessor(...) appended to RE.preprocessors.
InitEngine ==
    /\ InputIdle
    /\ \E names \in SampleStreamNames :
        /\ metadata_before_stream_name = names[1]
        /\ metadata_after_stream_name = names[2]
    /\ EngineIdle
    /\ PlansIdle
    /\ RequestIdle

\* RE(plan): the preprocessor wraps the plan in a new plan_mutator generator;
\* _kwargs_for_runs is the closure's and outlives the plan.
RunPlan ==
    /\ ~running
    /\ n_sent < MaxMsgs
    /\ running' = TRUE
    /\ plan_stack' = <<ParentPlan>>
    /\ msgs_seen' = {}
    /\ next_uid' = 1
    /\ emitted' = <<>>
    /\ original' = <<>>
    /\ plan_open' = <<>>
    /\ closes' = <<>>
    /\ used' = <<>>
    /\ UNCHANGED <<kwargs_for_runs, n_sent, metadata_before_stream_name,
                   metadata_after_stream_name>>
    /\ UNCHANGED <<ipVars, plVars, rqVars>>

PlanIsNext ==
    /\ running
    /\ ~MismatchedObjectsRead
    /\ plan_stack # <<>>
    /\ plan_stack[Len(plan_stack)].kind = "plan"

\* The plan yields open_run with some metadata.
PlanSendsOpenRun ==
    /\ PlanIsNext
    /\ n_sent < MaxMsgs
    /\ Len(plan_open) < MaxOpenRuns
    /\ \E kwargs \in SampleKwargs :
        LET msg == [Msg("open_run", None, kwargs) EXCEPT !.run = next_uid, !.uid = next_uid]
        IN  /\ original' = Append(original, msg)
            /\ plan_open' = Append(plan_open, [run |-> msg.run, kwargs |-> kwargs])
            /\ Mutate(msg, plan_stack, next_uid + 1)
    /\ n_sent' = n_sent + 1
    /\ UNCHANGED <<closes, running, metadata_before_stream_name, metadata_after_stream_name>>
    /\ UNCHANGED <<ipVars, plVars, rqVars>>

\* The plan yields close_run for one of its open runs.
PlanSendsCloseRun ==
    /\ PlanIsNext
    /\ n_sent < MaxMsgs
    /\ \E i \in 1..Len(plan_open) :
        LET msg == [Msg("close_run", None, NoKwargs) EXCEPT !.run = plan_open[i].run,
                                                            !.uid = next_uid]
        IN  /\ original' = Append(original, msg)
            /\ plan_open' = SubSeq(plan_open, 1, i - 1) \o SubSeq(plan_open, i + 1, Len(plan_open))
            /\ closes' = Append(closes, [run |-> plan_open[i].run,
                                         kwargs |-> plan_open[i].kwargs,
                                         innermost |-> i = Len(plan_open)])
            /\ Mutate(msg, plan_stack, next_uid + 1)
    /\ n_sent' = n_sent + 1
    /\ UNCHANGED <<running, metadata_before_stream_name, metadata_after_stream_name>>
    /\ UNCHANGED <<ipVars, plVars, rqVars>>

\* The plan yields any other message.
PlanSendsOther ==
    /\ PlanIsNext
    /\ n_sent < MaxMsgs
    /\ \E command \in OtherCommands :
        LET msg == [Msg(command, None, NoKwargs) EXCEPT !.uid = next_uid]
        IN  /\ original' = Append(original, msg)
            /\ Mutate(msg, plan_stack, next_uid + 1)
    /\ n_sent' = n_sent + 1
    /\ UNCHANGED <<plan_open, closes, running, metadata_before_stream_name,
                   metadata_after_stream_name>>
    /\ UNCHANGED <<ipVars, plVars, rqVars>>

\* The plan is exhausted: plan_mutator returns.
PlanReturns ==
    /\ PlanIsNext
    /\ running' = FALSE
    /\ plan_stack' = <<>>
    /\ UNCHANGED <<kwargs_for_runs, used, msgs_seen, next_uid, emitted, original,
                   plan_open, closes, n_sent, metadata_before_stream_name,
                   metadata_after_stream_name>>
    /\ UNCHANGED <<ipVars, plVars, rqVars>>

GeneratorIsNext ==
    /\ running
    /\ ~MismatchedObjectsRead
    /\ plan_stack # <<>>
    /\ plan_stack[Len(plan_stack)].kind = "gen"

\* An inserted generator yields its next message.
GeneratorSends ==
    /\ GeneratorIsNext
    /\ LET top == plan_stack[Len(plan_stack)]
       IN  /\ top.msgs # <<>>
           /\ Mutate(Head(top.msgs),
                     [plan_stack EXCEPT ![Len(plan_stack)].msgs = Tail(top.msgs)],
                     next_uid)
    /\ UNCHANGED <<original, plan_open, closes, n_sent, running,
                   metadata_before_stream_name, metadata_after_stream_name>>
    /\ UNCHANGED <<ipVars, plVars, rqVars>>

\* An inserted generator is exhausted: it is discarded and the tail generator
\* cached for it, if any, takes its place.
GeneratorReturns ==
    /\ GeneratorIsNext
    /\ LET top == plan_stack[Len(plan_stack)]
           rest == SubSeq(plan_stack, 1, Len(plan_stack) - 1)
       IN  /\ top.msgs = <<>>
           /\ plan_stack' = IF top.tail # None
                            THEN Append(rest, Generator(top.tail[1], None))
                            ELSE rest
    /\ UNCHANGED <<kwargs_for_runs, used, msgs_seen, next_uid, emitted, original,
                   plan_open, closes, n_sent, running, metadata_before_stream_name,
                   metadata_after_stream_name>>
    /\ UNCHANGED <<ipVars, plVars, rqVars>>

NextEngine ==
    \/ RunPlan
    \/ PlanSendsOpenRun
    \/ PlanSendsCloseRun
    \/ PlanSendsOther
    \/ PlanReturns
    \/ GeneratorSends
    \/ GeneratorReturns

SpecEngine == InitEngine /\ [][NextEngine]_vars

\* create_metadata_inserter_preprocessor called with the default names or with
\* one name for both streams.
InitStreams ==
    /\ InputIdle
    /\ \E names \in SampleStreamNames \cup SameStreamNames :
        /\ metadata_before_stream_name = names[1]
        /\ metadata_after_stream_name = names[2]
    /\ EngineIdle
    /\ PlansIdle
    /\ RequestIdle

\* The save of a mismatching event raises in the RunEngine: the exception ends
\* the plan and its generators; _kwargs_for_runs keeps its entries.
RunEngineRaises ==
    /\ running
    /\ MismatchedObjectsRead
    /\ running' = FALSE
    /\ plan_stack' = <<>>
    /\ UNCHANGED <<kwargs_for_runs, used, msgs_seen, next_uid, emitted, original,
                   plan_open, closes, n_sent, metadata_before_stream_name,
                   metadata_after_stream_name>>
    /\ UNCHANGED <<ipVars, plVars, rqVars>>

NextStreams ==
    \/ RunPlan
    \/ PlanSendsOpenRun
    \/ PlanSendsCloseRun
    \/ PlanSendsOther
    \/ PlanReturns
    \/ GeneratorSends
    \/ GeneratorReturns
    \/ RunEngineRaises

SpecStreams == InitStreams /\ [][NextStreams]_vars

----------------------------------------------------------------------------
(* plans.py: the argument handling of the plan CLIs.  A number is kept in   *)
(* hundredths ([float |-> 25] is 0.25, [int |-> 10] is 10), a string as     *)
(* [str |-> characters].                                                   *)

Digits == <<"0", "1", "2", "3", "4", "5", "6", "7", "8", "9">>

IsDigit(c) == \E i \in 1..10 : Digits[i] = c

DigitValue(c) == (CHOOSE i \in 1..10 : Digits[i] = c) - 1

\* The value of a string of digits (0 for the empty string).
RECURSIVE DecimalValue(_)
DecimalValue(ds) ==
    IF ds = <<>> THEN 0
    ELSE DecimalValue(SubSeq(ds, 1, Len(ds) - 1)) * 10 + DigitValue(ds[Len(ds)])

AllDigits(ds) == \A i \in 1..Len(ds) : IsDigit(ds[i])

\* int(s) for a token of a typed line: an optional sign and digits.  None
\* stands for ValueError.
int(s) ==
    LET signed == s # <<>> /\ Head(s) \in {"-", "+"}
        body == IF signed THEN Tail(s) ELSE s
    IN  IF body = <<>> \/ ~AllDigits(body) THEN None
        ELSE Some([int |-> IF signed /\ Head(s) = "-"
                           THEN 0 - DecimalValue(body) ELSE DecimalValue(body)])

\* float(s) for a token of a typed line: an optional sign, digits and at most
\* one point, with a digit on one side of it at least (the tokens of the
\* model have at most two decimals).  None stands for ValueError.
float(s) ==
    LET signed == s # <<>> /\ Head(s) \in {"-", "+"}
        body == IF signed THEN Tail(s) ELSE s
        points == {i \in 1..Len(body) : body[i] = "."}
        whole == IF points = {} THEN body
                 ELSE SubSeq(body, 1, (CHOOSE i \in points : TRUE) - 1)
        decimals == IF points = {} THEN <<>>
                    ELSE SubSeq(body, (CHOOSE i \in points : TRUE) + 1, Len(body))
        hundredths == IF Len(decimals) = 0 THEN 0
                      ELSE IF Len(decimals) = 1 THEN DecimalValue(decimals) * 10
                      ELSE DecimalValue(SubSeq(decimals, 1, 2))
        value == DecimalValue(whole) * 100 + hundredths
    IN  IF \/ Cardinality(points) > 1
           \/ ~AllDigits(whole)
           \/ ~AllDigits(decimals)
           \/ Len(whole) + Len(decimals) = 0
        THEN None
        ELSE Some([float |-> IF signed /\ Head(s) = "-" THEN 0 - value ELSE value])

endswith(s, suffix) ==
    Len(suffix) <= Len(s) /\ SubSeq(s, Len(s) - Len(suffix) + 1, Len(s)) = suffix

\* datetime.strftime for the directives of the HDF file names: %H, %M and %S
\* become the two digits of the hour, minute and second and %% a percent
\* sign (the file names of the model use no other directive).
RECURSIVE strftime(_, _)
strftime(now, format) ==
    IF format = <<>> THEN <<>>
    ELSE IF Head(format) = "%" /\ Len(format) >= 2
    THEN (IF format[2] = "H" THEN now.hour
          ELSE IF format[2] = "M" THEN now.minute
          ELSE IF format[2] = "S" THEN now.second
          ELSE IF format[2] = "%" THEN <<"%">>
          ELSE <<"%", format[2]>>)
         \o strftime(now, SubSeq(format, 3, Len(format)))
    ELSE <<Head(format)>> \o strftime(now, Tail(format))

\* Python's truth value of an optional string: None and "" are false.
Truthy(optional) == optional # None /\ optional[1] # <<>>

\* os.getcwd()
getcwd == <<"/", "h", "o", "m", "e">>

\* Mutant of parse_hdf_args: the template is preferred to the user's name.
parse_hdf_args_template_first(parsed_namespace, template, now) ==
    LET chosen == IF Truthy(template) THEN template ELSE parsed_namespace.hdf_file_name
    IN  IF chosen = None THEN [raised |-> "TypeError"]
        ELSE [hdf_file_name |-> strftime(now, chosen[1]),
              hdf_file_path |-> IF parsed_namespace.hdf_file_path = None
                                THEN getcwd ELSE parsed_namespace.hdf_file_path[1]]

\* _HDFBaseScanCLI.parse_hdf_args; strftime(None) raises TypeError.
parse_hdf_args(parsed_namespace, template, now) ==
    LET chosen == IF Truthy(parsed_namespace.hdf_file_name)
                  THEN parsed_namespace.hdf_file_name ELSE template
    IN  IF chosen = None THEN [raised |-> "TypeError"]
        ELSE [hdf_file_name |-> strftime(now, chosen[1]),
              hdf_file_path |-> IF parsed_namespace.hdf_file_path = None
                                THEN getcwd ELSE parsed_namespace.hdf_file_path[1]]

get_after_plan_behavior_argument(parsed_namespace) ==
    IF parsed_namespace.max THEN "max" ELSE "return"

\* Mutant of get_after_plan_target_argument: the first detector is taken
\* whenever a detector is selected.
get_after_plan_target_argument_first_detector(parsed_namespace) ==
    IF ~Truthy(parsed_namespace.plan_target) /\ Len(parsed_namespace.detectors) >= 1
    THEN Some(parsed_namespace.detectors[1])
    ELSE parsed_namespace.plan_target

get_after_plan_target_argument(parsed_namespace) ==
    IF ~Truthy(parsed_namespace.plan_target) /\ Len(parsed_namespace.detectors) = 1
    THEN Some(parsed_namespace.detectors[1])
    ELSE parsed_namespace.plan_target

get_before_plan_behavior_argument(parsed_namespace) ==
    IF parsed_namespace.max THEN Some("max")
    ELSE IF parsed_namespace.min THEN Some("min")
    ELSE None

get_before_plan_target_argument(parsed_namespace) ==
    IF ~Truthy(parsed_namespace.plan_target) /\ Len(parsed_namespace.detectors) = 1
    THEN Some(parsed_namespace.detectors[1])
    ELSE parsed_namespace.plan_target

\* PlanCLI.parse_varargs, as the plan CLIs of plans.py use it: a token that
\* reads as a number becomes the number, any other token is a device name;
\* with_final_num takes the last token as the integer number of points.
VarArg(token) == IF float(token) # None THEN float(token)[1] ELSE [str |-> token]

parse_varargs(args, with_final_num) ==
    LET positional == IF with_final_num THEN SubSeq(args, 1, Len(args) - 1) ELSE args
        num == IF with_final_num THEN int(args[Len(args)]) ELSE None
        IsName(token) == float(token) = None
    IN  IF with_final_num /\ num = None THEN [raised |-> "ValueError"]
        ELSE [args |-> [i \in 1..Len(positional) |-> VarArg(positional[i])],
              num |-> num,
              motors |-> SelectSeq(positional, IsName)]

Raised(kind) == [raised |-> kind]

\* Mutant of PlanNDScan._create_plan_arguments: the two token counts are
\* told apart the wrong way round.
PlanNDScan_create_plan_arguments_swapped(parsed_namespace, absolute, now) ==
    LET args == parsed_namespace.args
        nargs == Len(args)
        with_exp_time == nargs % 3 = 1
        exp_time == IF with_exp_time THEN float(args[nargs]) ELSE None
        varargs == parse_varargs(IF with_exp_time THEN SubSeq(args, 1, nargs - 1) ELSE args, TRUE)
        base_name == IF absolute THEN <<"a", "s", "c", "a", "n">> ELSE <<"r", "s", "c", "a", "n">>
        hdf == parse_hdf_args(parsed_namespace,
                              Some(base_name \o <<"_", "%", "H", "_", "%", "M", "_", "%", "S">>),
                              now)
    IN  IF ~((nargs >= 4) \/ (nargs % 3 = 0))
        THEN [raised |-> "AssertionError",
              message |-> "Not enough arguments have been passed."]
        ELSE IF nargs = 0 THEN Raised("IndexError")
        ELSE IF with_exp_time /\ exp_time = None THEN Raised("ValueError")
        ELSE IF "raised" \in DOMAIN varargs THEN varargs
        ELSE [plan_args |-> <<[detectors |-> parsed_namespace.detectors]>> \o varargs.args,
              number_of_points |-> varargs.num[1],
              exposure_time |-> exp_time,
              hdf_file_name |-> hdf.hdf_file_name,
              hdf_file_path |-> hdf.hdf_file_path,
              absolute |-> absolute,
              after_plan_behavior |-> get_after_plan_behavior_argument(parsed_namespace),
              after_plan_target |-> get_after_plan_target_argument(parsed_namespace)]

\* PlanNDScan._create_plan_arguments (ascan with absolute, rscan without);
\* the metadata of the plan is left out.
PlanNDScan_create_plan_arguments(parsed_namespace, absolute, now) ==
    LET args == parsed_namespace.args
        nargs == Len(args)
        with_exp_time == nargs % 3 # 1
        exp_time == IF with_exp_time THEN float(args[nargs]) ELSE None
        varargs == parse_varargs(IF with_exp_time THEN SubSeq(args, 1, nargs - 1) ELSE args, TRUE)
        base_name == IF absolute THEN <<"a", "s", "c", "a", "n">> ELSE <<"r", "s", "c", "a", "n">>
        hdf == parse_hdf_args(parsed_namespace,
                              Some(base_name \o <<"_", "%", "H", "_", "%", "M", "_", "%", "S">>),
                              now)
    IN  IF ~((nargs >= 4) \/ (nargs % 3 = 0))
        THEN [raised |-> "AssertionError",
              message |-> "Not enough arguments have been passed."]
        ELSE IF nargs = 0 THEN Raised("IndexError")
        ELSE IF with_exp_time /\ exp_time = None THEN Raised("ValueError")
        ELSE IF "raised" \in DOMAIN varargs THEN varargs
        ELSE [plan_args |-> <<[detectors |-> parsed_namespace.detectors]>> \o varargs.args,
              number_of_points |-> varargs.num[1],
              exposure_time |-> exp_time,
              hdf_file_name |-> hdf.hdf_file_name,
              hdf_file_path |-> hdf.hdf_file_path,
              absolute |-> absolute,
              after_plan_behavior |-> get_after_plan_behavior_argument(parsed_namespace),
              after_plan_target |-> get_after_plan_target_argument(parsed_namespace)]

\* Mutant of PlanMV._create_plan_arguments: use_old_data is -1 only for max.
PlanMV_create_plan_arguments_max_only(parsed_namespace) ==
    LET varargs == parse_varargs(parsed_namespace.args, FALSE)
        before_plan_behavior == get_before_plan_behavior_argument(parsed_namespace)
    IN  [plan_args |-> varargs.args,
         target |-> get_before_plan_target_argument(parsed_namespace),
         behavior |-> before_plan_behavior,
         use_old_data |-> IF before_plan_behavior = Some("max") THEN -1 ELSE 0]

\* PlanMV._create_plan_arguments; the metadata of the plan is left out.
PlanMV_create_plan_arguments(parsed_namespace) ==
    LET varargs == parse_varargs(parsed_namespace.args, FALSE)
        before_plan_behavior == get_before_plan_behavior_argument(parsed_namespace)
        before_plan_target == get_before_plan_target_argument(parsed_namespace)
        data_index == IF before_plan_behavior # None THEN -1 ELSE 0
    IN  [plan_args |-> varargs.args,
         target |-> before_plan_target,
         behavior |-> before_plan_behavior,
         use_old_data |-> data_index]

\* eval(...) of the reassembled text of a list or tuple of numbers, followed
\* by float() of each item: the positions, or the exception raised (a
\* malformed literal; "(1)", which is a number and cannot be iterated).
eval_positions(text) ==
    LET opening == Head(text)
        closing == text[Len(text)]
        pieces == split(SubSeq(text, 2, Len(text) - 1), ",")
        trailing_comma == Len(pieces) > 1 /\ pieces[Len(pieces)] = <<>>
        items == IF trailing_comma THEN SubSeq(pieces, 1, Len(pieces) - 1) ELSE pieces
    IN  IF ~((opening = "[" /\ closing = "]") \/ (opening = "(" /\ closing = ")"))
        THEN Raised("SyntaxError")
        ELSE IF items = << <<>> >> THEN [positions |-> <<>>]
        ELSE IF \E i \in 1..Len(items) : float(items[i]) = None
        THEN Raised("SyntaxError")  \* or NameError, for a name among the items
        ELSE IF opening = "(" /\ Len(items) = 1 /\ ~trailing_comma THEN Raised("TypeError")
        ELSE [positions |-> [i \in 1..Len(items) |-> float(items[i])[1]]]

\* RangeAction.maybe_fill_partial_list, with self._current_partial_list as
\* the argument partial (None or the tokens gathered) and as a result.
maybe_fill_partial_list(value, partial) ==
    IF startswith(value, <<"[">>) \/ startswith(value, <<"(">>)
    THEN [filling |-> TRUE, full |-> None, partial |-> Some(<<value>>), raised |-> None]
    ELSE IF endswith(value, <<"]">>) \/ endswith(value, <<")">>)
    THEN IF partial = None
         THEN [filling |-> TRUE, full |-> None, partial |-> partial,
               raised |-> Some("AttributeError")]
         ELSE LET evaluated == eval_positions(join(<<>>, Append(partial[1], value)))
              IN  IF "raised" \in DOMAIN evaluated
                  THEN [filling |-> TRUE, full |-> None, partial |-> Some(Append(partial[1], value)),
                        raised |-> Some(evaluated.raised)]
                  ELSE [filling |-> TRUE, full |-> Some(evaluated.positions), partial |-> None,
                        raised |-> None]
    ELSE IF partial # None
    THEN [filling |-> TRUE, full |-> None, partial |-> Some(Append(partial[1], value)),
          raised |-> None]
    ELSE [filling |-> FALSE, full |-> None, partial |-> partial, raised |-> None]

\* motor_positions[positioner].extend(positions) on the defaultdict, kept as
\* the list of its items in insertion order.
extend(motor_positions, positioner, positions) ==
    IF \E i \in 1..Len(motor_positions) : motor_positions[i].positioner = positioner
    THEN [i \in 1..Len(motor_positions) |->
            IF motor_positions[i].positioner = positioner
            THEN [motor_positions[i] EXCEPT !.positions = @ \o positions]
            ELSE motor_positions[i]]
    ELSE Append(motor_positions, [positioner |-> positioner, positions |-> positions])

\* The loop of RangeAction.__call__ over the values, with motor_positions,
\* current_positioner and self._current_partial_list as the state.
RECURSIVE RangeAction_loop(_, _)
RangeAction_loop(values, state) ==
    IF values = <<>> \/ state.raised # None THEN state
    ELSE LET value == Head(values)
             number == float(value)
             filled == maybe_fill_partial_list(value, state.partial)
         IN  IF number # None
             THEN IF state.current_positioner = None
                  THEN [state EXCEPT !.raised = Some("Exception")]
                  ELSE RangeAction_loop(Tail(values),
                        [state EXCEPT !.motor_positions =
                            extend(@, state.current_positioner, <<number[1]>>)])
             ELSE IF filled.raised # None
             THEN [state EXCEPT !.raised = filled.raised, !.partial = filled.partial]
             ELSE IF filled.filling
             THEN RangeAction_loop(Tail(values),
                    [state EXCEPT !.partial = filled.partial,
                                  !.motor_positions =
                                      IF filled.full # None
                                      THEN extend(@, state.current_positioner, filled.full[1])
                                      ELSE @])
             ELSE RangeAction_loop(Tail(values),
                    [state EXCEPT !.current_positioner = Some(value)])

\* The end of RangeAction.__call__: namespace.args built from the
\* motor_positions of the loop, or the exception the loop raised.
RangeAction_returned(final) ==
    IF final.raised # None THEN Raised(final.raised[1])
    ELSE [args |-> [i \in 1..(2 * Len(final.motor_positions)) |->
                    IF i % 2 = 1
                    THEN [positioner |-> final.motor_positions[(i + 1) \div 2].positioner]
                    ELSE [tuple |-> final.motor_positions[i \div 2].positions]]]

\* RangeAction.__call__ on an action whose _current_partial_list is partial:
\* the state in which the loop over the values ends (motor_positions, the
\* exception raised if any, and the _current_partial_list left behind).
RangeAction_call(values, partial) ==
    RangeAction_loop(values,
        [motor_positions |-> <<>>, current_positioner |-> None,
         partial |-> partial, raised |-> None])

\* RangeAction.__call__ of a newly created action (__init__ sets
\* _current_partial_list to None): namespace.args, or the exception raised.
RangeAction(values) == RangeAction_returned(RangeAction_call(values, None))

----------------------------------------------------------------------------
(* The calls made on the plan CLIs: a parsed command line and one method   *)
(* applied to it.                                                          *)

\* The positional tokens of ascan, rscan and mov command lines.
SampleArgs ==
    { << <<"s", "i", "m">>, <<"-", "1">>, <<"1">>, <<"1", "0">> >>,
      << <<"s", "i", "m">>, <<"-", "1">>, <<"1">>, <<"1", "0">>, <<"0", ".", "1">> >>,
      << <<"s", "i", "m">>, <<"-", "1">>, <<"1">>, <<"s", "i", "m", "2">>, <<"-", "2">>, <<"1", ".", "5">>, <<"1", "5">>, <<"0", ".", "2", "5">> >>,
      << <<"s", "i", "m">>, <<"-", "1">>, <<"1">>, <<"s", "i", "m", "2">>, <<"-", "2">>, <<"1", ".", "5">>, <<"1", "5">> >>,
      << <<"s", "i", "m">> >>,
      << <<"s", "i", "m">>, <<"0", ".", "1">> >>,
      << <<"s", "i", "m">>, <<"-", "1">>, <<"1">> >>,
      << <<"s", "i", "m">>, <<"-", "1">>, <<"1">>, <<"s", "i", "m", "2">>, <<"-", "2">>, <<"1", ".", "5">> >>,
      << <<"s", "i", "m", "1">>, <<"s", "i", "m", "2">> >>,
      << <<"s", "i", "m">>, <<"-", "1">>, <<"1">>, <<"1", "0">>, <<"x">> >>,
      << <<"s", "i", "m", "1">>, <<"1">>, <<"s", "i", "m", "2">>, <<"2", ".", "3">> >> }

\* The positional tokens of list_ascan and list_rscan command lines.
SampleValues ==
    { << <<"m", "s", "2", "r">>, <<"[", "1", ",">>, <<"2", ",">>, <<"3", "]">>, <<"w", "s", "t">>, <<"0", ".", "0">>, <<"0", ".", "2">>, <<"0", ".", "4">> >>,
      << <<"w", "s", "t">>, <<"0", ".", "0">>, <<"0", ".", "4">>, <<"0", ".", "5">>, <<"0", ".", "6">> >>,
      << <<"m", "s", "2", "r">>, <<"-", "1">>, <<"1">>, <<"5">> >>,
      << <<"m">>, <<"(", "1", ",">>, <<"2", ")">>, <<"n">>, <<"3">>, <<"m">>, <<"4">> >>,
      << <<"m">>, <<"[", "1", ",">>, <<"2", "]">>, <<"5">>, <<"n">>, <<"(", "0", ".", "5", ",">>, <<"1", ",", ")">> >>,
      << <<"m", "s", "2", "r">>, <<"[", "1", ",", "2", ",", "3", "]">>, <<"w", "s", "t">>, <<"0">>, <<"1">> >>,
      << <<"1">>, <<"m">>, <<"2">> >>,
      << <<"m">>, <<"n">>, <<"1">> >>,
      << <<"[", "1", ",">>, <<"2", "]">>, <<"m">>, <<"3">> >>,
      << <<"m">>, <<"[", "1", ",">>, <<"x", "]">>, <<"2">> >>,
      << <<"m">>, <<"1">>, <<"n", "]">>, <<"2">> >>,
      << <<"m">>, <<"(", "1">>, <<")">>, <<"n">>, <<"2">> >>,
      << <<"m">>, <<"[", "1">>, <<",">>, <<"2", "]">>, <<"n">>, <<"3">> >>,
      << <<"m">>, <<"[", "1", ",">>, <<"2">>, <<"]">> >>,
      << <<"m">>, <<"[", "1", ",">>, <<"2">> >>,
      << <<"m">>, <<"[", "1", ",">>, <<"2", ",">>, <<"3", "]">>, <<"n">>, <<"(">>, <<"4", ",">>, <<"5">>, <<")">> >> }

S_abc == <<"a", "b", "c">>
S_xyz == <<"x", "y", "z">>
S_sim_det == <<"s", "i", "m", "_", "d", "e", "t">>

\* The namespaces argparse hands over: the tokens, the detectors of -d, the
\* flags and the optional values (None when the option was not typed).
SampleNamespaces ==
    [args : SampleArgs \cup SampleValues,
     detectors : {<<>>, <<S_xyz>>, <<S_xyz, S_sim_det>>},
     plan_target : {None, Some(S_abc)},
     max : BOOLEAN,
     min : BOOLEAN,
     hdf_file_name : {None, Some(<<"a", "b", "a", "c", "a", "x", "i", "_", "%", "S">>)},
     hdf_file_path : {None, Some(<<"/", "t", "m", "p", "/">>)}]

\* The templates handed to parse_hdf_args (None by default).
SampleTemplates == {None, Some(<<"%", "H", "_", "c", "e", "n", "o", "u", "r", "a">>)}

\* What datetime.now() gives.
SampleTimes ==
    { [hour |-> <<"0", "7">>, minute |-> <<"3", "0">>, second |-> <<"5", "9">>],
      [hour |-> <<"2", "3">>, minute |-> <<"0", "5">>, second |-> <<"0", "0">>] }

InitPlans ==
    /\ InputIdle
    /\ metadata_before_stream_name = "baseline_before"
    /\ metadata_after_stream_name = "baseline_after"
    /\ EngineIdle
    /\ RequestIdle
    /\ namespace \in SampleNamespaces
    /\ plan = [method |-> "none"]
    /\ plan_result = <<>>
    /\ current_partial_list = None

NoCallYet == plan.method = "none"

CallParseHdfArgs ==
    /\ NoCallYet
    /\ \E template \in SampleTemplates, now \in SampleTimes :
        /\ plan' = [method |-> "parse_hdf_args", template |-> template, now |-> now]
        /\ plan_result' = parse_hdf_args(namespace, template, now)
    /\ UNCHANGED <<namespace, current_partial_list, ipVars, reVars, rqVars>>

CallGetAfterPlanBehaviorArgument ==
    /\ NoCallYet
    /\ plan' = [method |-> "get_after_plan_behavior_argument"]
    /\ plan_result' = get_after_plan_behavior_argument(namespace)
    /\ UNCHANGED <<namespace, current_partial_list, ipVars, reVars, rqVars>>

CallGetAfterPlanTargetArgument ==
    /\ NoCallYet
    /\ plan' = [method |-> "get_after_plan_target_argument"]
    /\ plan_result' = get_after_plan_target_argument(namespace)
    /\ UNCHANGED <<namespace, current_partial_list, ipVars, reVars, rqVars>>

CallGetBeforePlanBehaviorArgument ==
    /\ NoCallYet
    /\ plan' = [method |-> "get_before_plan_behavior_argument"]
    /\ plan_result' = get_before_plan_behavior_argument(namespace)
    /\ UNCHANGED <<namespace, current_partial_list, ipVars, reVars, rqVars>>

CallGetBeforePlanTargetArgument ==
    /\ NoCallYet
    /\ plan' = [method |-> "get_before_plan_target_argument"]
    /\ plan_result' = get_before_plan_target_argument(namespace)
    /\ UNCHANGED <<namespace, current_partial_list, ipVars, reVars, rqVars>>

\* ascan (absolute) or rscan typed with the tokens of namespace.args.
CallPlanNDScan ==
    /\ NoCallYet
    /\ \E absolute \in BOOLEAN, now \in SampleTimes :
        /\ plan' = [method |-> "PlanNDScan._create_plan_arguments",
                    absolute |-> absolute, now |-> now]
        /\ plan_result' = PlanNDScan_create_plan_arguments(namespace, absolute, now)
    /\ UNCHANGED <<namespace, current_partial_list, ipVars, reVars, rqVars>>

\* argparse applies RangeAction to the positional tokens of a list scan.
CallRangeAction ==
    /\ NoCallYet
    /\ plan' = [method |-> "RangeAction.__call__", calls |-> 1]
    /\ \E final \in {RangeAction_call(namespace.args, None)} :
        /\ plan_result' = RangeAction_returned(final)
        /\ current_partial_list' = final.partial
    /\ UNCHANGED <<namespace, ipVars, reVars, rqVars>>

\* The parser of the list scan parses another command: argparse makes a new
\* namespace and applies the same RangeAction object to the new tokens.
CallRangeActionAgain ==
    /\ plan.method = "RangeAction.__call__"
    /\ plan.calls = 1
    /\ \E values \in SampleValues :
        /\ namespace' = [namespace EXCEPT !.args = values]
        /\ \E final \in {RangeAction_call(values, current_partial_list)} :
            /\ plan_result' = RangeAction_returned(final)
            /\ current_partial_list' = final.partial
    /\ plan' = [method |-> "RangeAction.__call__", calls |-> 2]
    /\ UNCHANGED <<ipVars, reVars, rqVars>>

\* mov typed with the tokens of namespace.args.
CallPlanMV ==
    /\ NoCallYet
    /\ plan' = [method |-> "PlanMV._create_plan_arguments"]
    /\ plan_result' = PlanMV_create_plan_arguments(namespace)
    /\ UNCHANGED <<namespace, current_partial_list, ipVars, reVars, rqVars>>

NextPlans ==
    \/ CallParseHdfArgs
    \/ CallGetAfterPlanBehaviorArgument
    \/ CallGetAfterPlanTargetArgument
    \/ CallGetBeforePlanBehaviorArgument
    \/ CallGetBeforePlanTargetArgument
    \/ CallPlanNDScan
    \/ CallRangeAction
    \/ CallRangeActionAgain
    \/ CallPlanMV

SpecPlans == InitPlans /\ [][NextPlans]_vars

----------------------------------------------------------------------------
(* EScanRangeAction (plans.py): argparse applies it to each -e and -k       *)
(* option of an escan command line, in command-line order, on the          *)
(* namespace of that command.                                              *)

\* Range options in one command line.
MaxRanges == 3

\* The values of one option as argparse hands them over (type=float).
EScanSampleValues ==
    { << [float |-> 710000] >>,
      << [float |-> 1200], [float |-> 50] >>,
      << [float |-> 710000], [float |-> 720000], [float |-> 100] >>,
      << [float |-> 200], [float |-> 1200], [float |-> 5] >>,
      << [float |-> 710000], [float |-> 720000], [float |-> 100], [float |-> 2] >> }

\* The namespace before the first option: e and k have their default None
\* and _current_range_index is not set.
InitEScan ==
    /\ InputIdle
    /\ metadata_before_stream_name = "baseline_before"
    /\ metadata_after_stream_name = "baseline_after"
    /\ EngineIdle
    /\ RequestIdle
    /\ namespace = [e |-> None, k |-> None, current_range_index |-> None]
    /\ plan = [method |-> "none", calls |-> 0]
    /\ plan_result = <<>>
    /\ current_partial_list = None

\* list.append on namespace.e or namespace.k, created when it is None.
append_range(ranges, range) == Some(Append(IF ranges = None THEN <<>> ELSE ranges[1], range))

\* Mutant of EScanRangeAction.__call__: -e and -k ranges are numbered
\* separately, each by its place in its own list.
EScanRangeAction_call_per_list(ns, option_string, values) ==
    LET index == IF option_string = "-e"
                 THEN (IF ns.e = None THEN 0 ELSE Len(ns.e[1]))
                 ELSE (IF ns.k = None THEN 0 ELSE Len(ns.k[1]))
        current == IF ns.current_range_index = None THEN 0 ELSE ns.current_range_index[1]
        n_values == Len(values)
        started == [ns EXCEPT !.current_range_index = Some(current),
                              !.e = IF option_string = "-e" /\ @ = None THEN Some(<<>>) ELSE @,
                              !.k = IF option_string = "-k" /\ @ = None THEN Some(<<>>) ELSE @]
        stored(range) ==
            [namespace |-> [started EXCEPT !.e = IF option_string = "-e"
                                                 THEN append_range(@, range) ELSE @,
                                           !.k = IF option_string = "-k"
                                                 THEN append_range(@, range) ELSE @,
                                           !.current_range_index = Some(current + 1)],
             raised |-> None]
        rejected == [namespace |-> started, raised |-> Some("Exception")]
    IN  IF option_string = "-e"
        THEN IF n_values = 3
             THEN stored([index |-> index, start |-> Some(values[1]),
                          stop |-> values[2], step |-> values[3]])
             ELSE rejected
        ELSE IF n_values = 2
             THEN IF current = 0
                  THEN rejected
                  ELSE stored([index |-> index, start |-> None,
                               stop |-> values[1], step |-> values[2]])
             ELSE IF n_values = 3
             THEN stored([index |-> index, start |-> Some(values[1]),
                          stop |-> values[2], step |-> values[3]])
             ELSE rejected

\* Mutant of EScanRangeAction.__call__: a -k range without a start is stored
\* wherever it stands, and a rejected option advances the counter.
EScanRangeAction_call_counting_all(ns, option_string, values) ==
    LET current == IF ns.current_range_index = None THEN 0 ELSE ns.current_range_index[1]
        index == current
        n_values == Len(values)
        started == [ns EXCEPT !.current_range_index = Some(current),
                              !.e = IF option_string = "-e" /\ @ = None THEN Some(<<>>) ELSE @,
                              !.k = IF option_string = "-k" /\ @ = None THEN Some(<<>>) ELSE @]
        stored(range) ==
            [namespace |-> [started EXCEPT !.e = IF option_string = "-e"
                                                 THEN append_range(@, range) ELSE @,
                                           !.k = IF option_string = "-k"
                                                 THEN append_range(@, range) ELSE @,
                                           !.current_range_index = Some(current + 1)],
             raised |-> None]
        rejected == [namespace |-> [started EXCEPT !.current_range_index = Some(current + 1)],
                     raised |-> Some("Exception")]
    IN  IF option_string = "-e"
        THEN IF n_values = 3
             THEN stored([index |-> index, start |-> Some(values[1]),
                          stop |-> values[2], step |-> values[3]])
             ELSE rejected
        ELSE IF n_values = 2
             THEN IF FALSE
                  THEN rejected
                  ELSE stored([index |-> index, start |-> None,
                               stop |-> values[1], step |-> values[2]])
             ELSE IF n_values = 3
             THEN stored([index |-> index, start |-> Some(values[1]),
                          stop |-> values[2], step |-> values[3]])
             ELSE rejected

\* EScanRangeAction.__call__ for the option "-e" or "-k": the namespace it
\* leaves and the exception it raised, if any. A stored range is the tuple
\* (range index, start or None, end, step).
EScanRangeAction_call(ns, option_string, values) ==
    LET current == IF ns.current_range_index = None THEN 0 ELSE ns.current_range_index[1]
        index == current
        n_values == Len(values)
        started == [ns EXCEPT !.current_range_index = Some(current),
                              !.e = IF option_string = "-e" /\ @ = None THEN Some(<<>>) ELSE @,
                              !.k = IF option_string = "-k" /\ @ = None THEN Some(<<>>) ELSE @]
        stored(range) ==
            [namespace |-> [started EXCEPT !.e = IF option_string = "-e"
                                                 THEN append_range(@, range) ELSE @,
                                           !.k = IF option_string = "-k"
                                                 THEN append_range(@, range) ELSE @,
                                           !.current_range_index = Some(current + 1)],
             raised |-> None]
        rejected == [namespace |-> started, raised |-> Some("Exception")]
    IN  IF option_string = "-e"
        THEN IF n_values = 3
             THEN stored([index |-> index, start |-> Some(values[1]),
                          stop |-> values[2], step |-> values[3]])
             ELSE rejected
        ELSE IF n_values = 2
             THEN IF current = 0
                  THEN rejected
                  ELSE stored([index |-> index, start |-> None,
                               stop |-> values[1], step |-> values[2]])
             ELSE IF n_values = 3
             THEN stored([index |-> index, start |-> Some(values[1]),
                          stop |-> values[2], step |-> values[3]])
             ELSE rejected

\* argparse meets the next -e or -k option of the command line; an exception
\* of the action ends the parsing of the command.
EScanRangeAction ==
    /\ "raised" \notin DOMAIN plan_result
    /\ plan.calls < MaxRanges
    /\ \E option_string \in {"-e", "-k"}, values \in EScanSampleValues :
        \E called \in {EScanRangeAction_call(namespace, option_string, values)} :
            /\ namespace' = called.namespace
            /\ plan_result' = IF called.raised = None THEN <<>> ELSE Raised(called.raised[1])
            /\ plan' = [method |-> "EScanRangeAction.__call__", calls |-> plan.calls + 1,
                        option_string |-> option_string, values |-> values,
                        before |-> namespace]
    /\ UNCHANGED <<current_partial_list, ipVars, reVars, rqVars>>

NextEScan == EScanRangeAction

SpecEScan == InitEScan /\ [][NextEScan]_vars

----------------------------------------------------------------------------
(* Plan submission to the remote server (__init__.py): the plan magics     *)
(* submit the plan of a command; a submission refused by the server raises *)
(* RequestFailedError, for which load_ipython_extension registers          *)
(* after_plan_request_failed_callback.                                     *)

\* Plan commands typed in a session, and submissions of one command.
MaxCommands == 3
MaxSubmissions == 3

RETRY == "RETRY"
EXIT_QUIET == "EXIT_QUIET"

InitRequest ==
    /\ InputIdle
    /\ metadata_before_stream_name = "baseline_before"
    /\ metadata_after_stream_name = "baseline_after"
    /\ EngineIdle
    /\ PlansIdle
    /\ RequestIdle

\* The submissions of the current command so far.
Tries == submissions[Len(submissions)]

\* The user runs a plan magic: its plan is submitted for the first time.
SubmitPlan ==
    /\ pc \in {"idle", "done", "raised"}
    /\ Len(submissions) < MaxCommands
    /\ submissions' = Append(submissions, 1)
    /\ handler_return' = None
    /\ pc' = "submitted"
    /\ UNCHANGED <<pause_pending, environment, ipVars, reVars, plVars>>

\* The server accepts the plan.
SubmissionAccepted ==
    /\ pc = "submitted"
    /\ pc' = "done"
    /\ UNCHANGED <<pause_pending, environment, submissions, handler_return,
                   ipVars, reVars, plVars>>

\* The server refuses the plan, RequestFailedError is raised and the handler
\* registered for it is called.
RequestFailedError ==
    /\ pc = "submitted"
    /\ pc' = "failed"
    /\ UNCHANGED <<pause_pending, environment, submissions, handler_return,
                   ipVars, reVars, plVars>>

\* The server refuses a plan submitted again and RequestFailedError leaves the
\* plan magic (whether sophys-cli-core calls the handler for a failure of the
\* retry is its own matter: both outcomes are kept).
RequestFailedErrorPropagates ==
    /\ pc = "submitted"
    /\ Tries > 1
    /\ pc' = "raised"
    /\ UNCHANGED <<pause_pending, environment, submissions, handler_return,
                   ipVars, reVars, plVars>>

\* Mutant of after_plan_request_failed_callback: the environment is recreated
\* and a retry asked for whatever the status says.
after_plan_request_failed_callback_always ==
    /\ pc = "failed"
    /\ \E res \in [pause_pending : BOOLEAN] :
        /\ pause_pending' = res.pause_pending
        /\ environment' = [destroyed |-> environment.destroyed + 1,
                           created |-> environment.created + 1]
        /\ handler_return' = Some(RETRY)
    /\ pc' = "handled"
    /\ UNCHANGED <<submissions, ipVars, reVars, plVars>>

\* after_plan_request_failed_callback: res is what manager.status() answers;
\* HTTPMagics._reload_environment(manager, True, ...) destroys the environment
\* and creates another one.
after_plan_request_failed_callback ==
    /\ pc = "failed"
    /\ \E res \in [pause_pending : BOOLEAN] :
        /\ pause_pending' = res.pause_pending
        /\ IF res.pause_pending
           THEN /\ environment' = [destroyed |-> environment.destroyed + 1,
                                   created |-> environment.created + 1]
                /\ handler_return' = Some(RETRY)
           ELSE /\ environment' = environment
                /\ handler_return' = Some(EXIT_QUIET)
    /\ pc' = "handled"
    /\ UNCHANGED <<submissions, ipVars, reVars, plVars>>

\* The handler returned RETRY: the plan is submitted again.
Retry ==
    /\ pc = "handled"
    /\ handler_return = Some(RETRY)
    /\ Tries < MaxSubmissions
    /\ submissions' = [submissions EXCEPT ![Len(submissions)] = @ + 1]
    /\ pc' = "submitted"
    /\ UNCHANGED <<pause_pending, environment, handler_return, ipVars, reVars, plVars>>

\* The handler returned EXIT_QUIET: the plan magic ends without a traceback.
ExitQuiet ==
    /\ pc = "handled"
    /\ handler_return = Some(EXIT_QUIET)
    /\ pc' = "done"
    /\ UNCHANGED <<pause_pending, environment, submissions, handler_return,
                   ipVars, reVars, plVars>>

NextRequest ==
    \/ SubmitPlan
    \/ SubmissionAccepted
    \/ RequestFailedError
    \/ RequestFailedErrorPropagates
    \/ after_plan_request_failed_callback
    \/ Retry
    \/ ExitQuiet

SpecRequest == InitRequest /\ [][NextRequest]_vars

----------------------------------------------------------------------------
(* Vocabulary of the statements about the input processor, written from    *)
(* the wording of the statements: the plan a line invokes, and the text of *)
(* each directive.                                                         *)

HasSpace(s) == \E j \in 1..Len(s) : s[j] = " "

FirstWord(s) ==
    IF HasSpace(s)
    THEN SubSeq(s, 1, (CHOOSE j \in 1..Len(s) : s[j] = " " /\ \A h \in 1..(j - 1) : s[h] # " ") - 1)
    ELSE s

\* The stripped line is "<name> ..." or "%<name> ...".
Invokes(line, name) ==
    LET s == strip(line)
        t == IF s # <<>> /\ Head(s) = "%" THEN Tail(s) ELSE s
    IN  HasSpace(t) /\ FirstWord(t) = name

\* Whitelist positions of the plans the line invokes (at most one).
InvokedPlans(line) ==
    {k \in 1..Len(whitelisted_plan_list) : Invokes(line, whitelisted_plan_list[k].user_name)}

TakesDetectors(k) ==
    LET props == whitelisted_plan_list[k].extra_props
    IN  "has_detectors" \notin DOMAIN props \/ props["has_detectors"]

\* The plan input_processor matches for a whole input: the earliest whitelist
\* entry invoked by any of its lines (0 when no line invokes any).
MatchedPlan(ls) ==
    LET ks == UNION {InvokedPlans(ls[i]) : i \in 1..Len(ls)}
    IN  IF ks = {} THEN 0 ELSE CHOOSE k \in ks : \A j \in ks : k <= j

RECURSIVE SpacePrefixed(_)
SpacePrefixed(names) ==
    IF names = <<>> THEN <<>> ELSE <<" ">> \o Head(names) \o SpacePrefixed(Tail(names))

RECURSIVE CommaSeparated(_)
CommaSeparated(names) ==
    IF names = <<>> THEN <<>>
    ELSE CommaSeparated(SubSeq(names, 1, Len(names) - 1))
         \o (IF Len(names) > 1 THEN <<",">> ELSE <<>>) \o names[Len(names)]

\* " -d" followed by the detectors, each after one space.
DetectorsDirective(src) == <<" ", "-", "d">> \o SpacePrefixed(src.detector)

MdGroup(key, names) ==
    IF names = <<>> THEN <<>> ELSE <<" ">> \o key \o <<"=">> \o CommaSeparated(names)

MdGroups(src) ==
    MdGroup(<<"R", "E", "A", "D", "_", "B", "E", "F", "O", "R", "E">>, src.before)
    \o MdGroup(<<"R", "E", "A", "D", "_", "D", "U", "R", "I", "N", "G">>, src.during)
    \o MdGroup(<<"R", "E", "A", "D", "_", "A", "F", "T", "E", "R">>, src.after)

\* " --md" followed by the non-empty groups; empty when all three are empty.
MetadataDirective(src) ==
    IF MdGroups(src) = <<>> THEN <<>> ELSE <<" ", "-", "-", "m", "d">> \o MdGroups(src)

\* The chosen target as a list of zero or one name.
ChosenTarget(src) ==
    IF src.main_detector # <<>> THEN <<src.main_detector[1]>>
    ELSE IF Len(src.detector) = 1 THEN <<src.detector[1]>>
    ELSE <<>>

TargetDirective(src) ==
    IF ChosenTarget(src) = <<>> THEN <<>>
    ELSE <<" ", "-", "-", "p", "l", "a", "n", "_", "t", "a", "r", "g", "e", "t", " ">>
         \o ChosenTarget(src)[1]
         \o <<" ", "-", "-", "m", "d", " ">>
         \o <<"M", "A", "I", "N", "_", "C", "O", "U", "N", "T", "E", "R", "=">>
         \o ChosenTarget(src)[1]

\* The line with a suffix appended: untouched when the suffix is empty.
Appended(line, suffix) == IF suffix = <<>> THEN line ELSE strip(line) \o suffix

----------------------------------------------------------------------------
(* Statements about input_processor.py *)

\* C1: input_processor returns its input lines unchanged when no line, after
\* stripping, starts with "<user_name> " or "%<user_name> " for a plan of the
\* whitelist.
C1_UnmatchedInputUnchanged ==
    (op = "input_processor" /\ \A i \in 1..Len(lines) : InvokedPlans(lines[i]) = {})
        => result = lines

\* C1 witness: an input of "super_scan w w" alone and of a bare "count", with
\* detectors and metadata selected, went through input_processor.
C1_Witness ==
    /\ op = "input_processor"
    /\ \A i \in 1..Len(lines) : InvokedPlans(lines[i]) = {}
    /\ \E i \in 1..Len(lines) : FirstWord(lines[i]) = S_count
    /\ \E i \in 1..Len(lines) : FirstWord(lines[i]) = <<"s", "u", "p", "e", "r", "_", "s", "c", "a", "n">>
    /\ source.detector # <<>>
    /\ source.before # <<>>
    /\ result = lines

\* C2: every line that invokes a whitelisted plan taking detectors is returned
\* as its stripped text followed by the '-d' directive, then the '--md READ_..'
\* directive, then the '--plan_target T --md MAIN_COUNTER=T' directive (a
\* directive with nothing selected for it left out, trailing blanks aside).
C2_DirectivesInOrder ==
    op = "input_processor" =>
        \A i \in 1..Len(lines) :
            (\E k \in InvokedPlans(lines[i]) : TakesDetectors(k)) =>
                rstrip(result[i]) =
                    strip(lines[i]) \o DetectorsDirective(source)
                        \o MetadataDirective(source) \o TargetDirective(source)

\* C2 restricted to inputs of one line, where the matched plan is the plan of
\* the line.
C2_SingleLineDirectivesInOrder ==
    (op = "input_processor" /\ Len(lines) = 1) =>
        ((\E k \in InvokedPlans(lines[1]) : TakesDetectors(k)) =>
            rstrip(result[1]) =
                strip(lines[1]) \o DetectorsDirective(source)
                    \o MetadataDirective(source) \o TargetDirective(source))

\* C3: with a matched plan declared has_detectors=False no '-d' is inserted and
\* the metadata and plan-target directives are still appended; with
\* has_detectors True or absent, or without plan information, '-d' is inserted.
C3_DetectorsOnlyIfPlanHasThem ==
    /\ op = "add_detectors" =>
        result[1] =
            IF plan_information # None
               /\ "has_detectors" \in DOMAIN plan_information[1].extra_props
               /\ plan_information[1].extra_props["has_detectors"] = FALSE
            THEN lines[1]
            ELSE strip(lines[1]) \o <<" ", "-", "d", " ">>
                 \o (IF source.detector = <<>> THEN <<>>
                     ELSE Tail(SpacePrefixed(source.detector)))
    /\ (op = "input_processor" /\ MatchedPlan(lines) # 0) =>
        \A i \in 1..Len(lines) :
            IF TakesDetectors(MatchedPlan(lines))
            THEN rstrip(result[i]) =
                    strip(lines[i]) \o DetectorsDirective(source)
                        \o MetadataDirective(source) \o TargetDirective(source)
            ELSE result[i] =
                    Appended(lines[i], MetadataDirective(source) \o TargetDirective(source))

\* C3 witness: "mov" matched with detectors, metadata and a target selected:
\* the line carries the metadata and the target and no '-d'.
C3_Witness ==
    /\ op = "input_processor"
    /\ Len(lines) = 1
    /\ MatchedPlan(lines) = 1
    /\ Len(source.detector) = 2
    /\ source.after # <<>>
    /\ source.main_detector # <<>>
    /\ result[1] = strip(lines[1]) \o MetadataDirective(source) \o TargetDirective(source)
    /\ result[1] # lines[1]

\* C4: input_processor applied to the lines it returned (same whitelist, same
\* data source) returns them unchanged.
C4_Idempotent ==
    op = "input_processor_again" => result = lines

\* C5: add_metadata appends one '--md' directive holding the non-empty groups
\* among READ_BEFORE, READ_DURING, READ_AFTER, in that order, each as
\* KEY=comma-joined names; with all three empty the line is returned unchanged.
C5_MetadataGroups ==
    op = "add_metadata" =>
        result[1] =
            IF source.before = <<>> /\ source.during = <<>> /\ source.after = <<>>
            THEN lines[1]
            ELSE strip(lines[1]) \o <<" ", "-", "-", "m", "d">> \o MdGroups(source)

\* C5 witness: add_metadata ran with READ_BEFORE and READ_AFTER selected and
\* READ_DURING empty, on a line with blanks around it.
C5_Witness ==
    /\ op = "add_metadata"
    /\ source.before # <<>>
    /\ source.during = <<>>
    /\ source.after # <<>>
    /\ lines[1] # strip(lines[1])
    /\ result[1] # lines[1]

----------------------------------------------------------------------------
(* Vocabulary of the statements about the metadata inserter.               *)

\* A message of the plan itself, as opposed to an inserted one.
IsPlanMsg(m) == \E i \in 1..Len(original) : original[i].uid = m.uid

\* What a message collector compares: command, object and arguments.
Bare(m) == [command |-> m.command, obj |-> m.obj, kwargs |-> m.kwargs]

BareSeq(ms) == [i \in 1..Len(ms) |-> Bare(ms[i])]

IsPrefix(a, b) == Len(a) <= Len(b) /\ SubSeq(b, 1, Len(a)) = a

\* The device names listed under a key of the run's metadata (none when the
\* key is absent or empty).
ListedNames(kwargs, key) ==
    IF key \in DOMAIN kwargs /\ kwargs[key] # <<>> THEN split(kwargs[key], ",") ELSE <<>>

Findable(names) ==
    LET Registered(n) == n \in RegisteredDevices
    IN  SelectSeq(names, Registered)

\* create, one read per findable name in the order listed, then save (drop
\* when nothing was read).
ExpectedStream(names, stream) ==
    <<[command |-> "create", obj |-> None, kwargs |-> [name |-> stream]]>>
    \o [i \in 1..Len(Findable(names)) |->
            [command |-> "read", obj |-> <<Findable(names)[i]>>, kwargs |-> NoKwargs]]
    \o <<[command |-> IF Findable(names) # <<>> THEN "save" ELSE "drop",
          obj |-> None, kwargs |-> NoKwargs]>>

\* The position after p of the next message of the plan in the emitted
\* stream (one past the end when there is none yet).
NextPlanMsgAfter(p) ==
    IF \E q \in (p + 1)..Len(emitted) : IsPlanMsg(emitted[q])
    THEN CHOOSE q \in (p + 1)..Len(emitted) :
            IsPlanMsg(emitted[q]) /\ \A h \in (p + 1)..(q - 1) : ~IsPlanMsg(emitted[h])
    ELSE Len(emitted) + 1

\* plan_mutator is between two messages of the plan, or done with the plan.
BetweenPlanMsgs == PlanIsNext \/ (~running /\ original # <<>>)

\* Every close_run of the current plan so far, up to the j-th, closed the most
\* recently opened run still open.
NestedUpTo(j) == \A i \in 1..j : closes[i].innermost

\* The position in the emitted stream of the plan's message with this
\* identity (0 when it has not been emitted).
EmittedAt(uid) ==
    IF \E q \in 1..Len(emitted) : emitted[q].uid = uid
    THEN CHOOSE q \in 1..Len(emitted) : emitted[q].uid = uid
    ELSE 0

\* The j-th close_run message the plan yielded.
CloseMsg(j) ==
    LET IsClose(m) == m.command = "close_run"
    IN  SelectSeq(original, IsClose)[j]

RECURSIVE BeforeExtras(_)
BeforeExtras(msgs) ==
    IF msgs = <<>> THEN 0
    ELSE BeforeExtras(Tail(msgs))
         + (IF Head(msgs).command = "open_run"
               /\ ListedNames(Head(msgs).kwargs, "READ_BEFORE") # <<>>
            THEN Len(Findable(ListedNames(Head(msgs).kwargs, "READ_BEFORE"))) + 2
            ELSE 0)

\* Some listed name is not the name of a registered device.
HasUnknown(names) == \E i \in 1..Len(names) : names[i] \notin RegisteredDevices

\* The event opened at position c is complete and reads exactly the findable
\* names among `names`, in the order listed, and ends with save when there is
\* one and with drop when there is none.
EventReadsFindable(c, names, stream) ==
    LET e == EventEnd(c)
        found == Findable(names)
    IN  /\ Bare(emitted[c]) = [command |-> "create", obj |-> None, kwargs |-> [name |-> stream]]
        /\ e = c + Len(found) + 1
        /\ \A i \in 1..Len(found) :
            Bare(emitted[c + i]) = [command |-> "read", obj |-> <<found[i]>>, kwargs |-> NoKwargs]
        /\ emitted[e].command = IF found = <<>> THEN "drop" ELSE "save"

\* The set of devices a list of names finds.
FoundSet(names) == {Findable(names)[i] : i \in 1..Len(Findable(names))}

\* One name was given for the before-stream and the after-stream.
SameNames == metadata_before_stream_name = metadata_after_stream_name

----------------------------------------------------------------------------
(* Statements about run_engine.py *)

\* C7: the preprocessor keeps one kwargs entry per open run on a stack: each
\* open_run pushes its kwargs and each close_run pops one entry; as long as the
\* runs are strictly nested the entries above those left by earlier plans are
\* the kwargs of the plan's open runs, oldest first, and each close_run uses
\* the kwargs (hence the READ_AFTER) of its own open_run.
C7_CloseUsesOwnKwargs ==
    /\ Len(used) = Len(closes)
    /\ \A j \in 1..Len(closes) : NestedUpTo(j) => used[j] = closes[j].kwargs
    /\ NestedUpTo(Len(closes)) =>
        /\ Len(kwargs_for_runs) >= Len(plan_open)
        /\ SubSeq(kwargs_for_runs, Len(kwargs_for_runs) - Len(plan_open) + 1,
                  Len(kwargs_for_runs))
           = [i \in 1..Len(plan_open) |-> plan_open[i].kwargs]

\* C7 witness: two nested runs with different metadata, the inner one with a
\* READ_AFTER, have both been closed, inner first.
C7_Witness ==
    /\ Len(closes) = 2
    /\ NestedUpTo(2)
    /\ closes[1].run > closes[2].run
    /\ closes[1].kwargs # closes[2].kwargs
    /\ ListedNames(closes[1].kwargs, "READ_AFTER") # <<>>
    /\ used = <<closes[1].kwargs, closes[2].kwargs>>

\* C8: when no open_run of the plan carries a READ_BEFORE or a READ_AFTER
\* (absent or empty), the emitted stream is, message by message, the stream of
\* the plan itself.
C8_NoMetadataSameStream ==
    (\A i \in 1..Len(original) :
        original[i].command = "open_run" =>
            /\ ListedNames(original[i].kwargs, "READ_BEFORE") = <<>>
            /\ ListedNames(original[i].kwargs, "READ_AFTER") = <<>>)
    => /\ IsPrefix(BareSeq(emitted), BareSeq(original))
       /\ BetweenPlanMsgs => emitted = original

\* C8 witness: a finished plan of at least four messages with a run whose
\* metadata is empty strings and a run without metadata, emitted as it is.
C8_Witness ==
    /\ ~running
    /\ Len(original) >= 4
    /\ \E i \in 1..Len(original) :
        /\ original[i].command = "open_run"
        /\ DOMAIN original[i].kwargs = {"READ_BEFORE", "READ_AFTER"}
        /\ original[i].kwargs["READ_BEFORE"] = <<>>
    /\ \E i \in 1..Len(original) :
        original[i].command = "open_run" /\ DOMAIN original[i].kwargs = {}
    /\ Len(closes) = 2
    /\ emitted = original

\* C9: after an open_run with a non-empty READ_BEFORE, and before any later
\* message of the plan, come one create of the before-stream, one read per
\* findable device in the order listed and one save or drop; a plan without
\* READ_AFTER so gets n + 2 extra messages per such run with n findable devices.
C9_BeforeStreamAfterOpenRun ==
    /\ \A p \in 1..Len(emitted) :
        (emitted[p].command = "open_run"
         /\ ListedNames(emitted[p].kwargs, "READ_BEFORE") # <<>>) =>
            LET expected == ExpectedStream(ListedNames(emitted[p].kwargs, "READ_BEFORE"),
                                           metadata_before_stream_name)
                inserted == BareSeq(SubSeq(emitted, p + 1, NextPlanMsgAfter(p) - 1))
            IN  /\ IsPrefix(inserted, expected) \/ IsPrefix(expected, inserted)
                /\ (NextPlanMsgAfter(p) <= Len(emitted) \/ BetweenPlanMsgs)
                    => IsPrefix(expected, inserted)
    /\ (BetweenPlanMsgs /\ \A j \in 1..Len(used) : ListedNames(used[j], "READ_AFTER") = <<>>)
        => /\ Len(emitted) = Len(original) + BeforeExtras(original)
           /\ \A i \in 1..Len(original) : EmittedAt(original[i].uid) # 0

\* C9 witness: a run opened with READ_BEFORE "det4,nodev,rand" got create,
\* read det4, read rand, save right after its open_run, and the plan went on.
C9_Witness ==
    /\ PlanIsNext
    /\ Len(original) = 2
    /\ Len(emitted) = 6
    /\ original[1].command = "open_run"
    /\ emitted[1] = original[1]
    /\ BareSeq(SubSeq(emitted, 2, 5))
       = ExpectedStream(<<S_det4, <<"n", "o", "d", "e", "v">>, S_rand>>, "baseline_before")
    /\ emitted[3].obj = <<S_det4>>
    /\ emitted[5].command = "save"
    /\ emitted[6] = original[2]
    /\ original[2].command = "checkpoint"

C11_UnknownDevicesSkipped ==
    /\ \A p \in 1..Len(emitted) :
        (/\ emitted[p].command = "open_run"
         /\ HasUnknown(ListedNames(emitted[p].kwargs, "READ_BEFORE"))
         /\ (NextPlanMsgAfter(p) <= Len(emitted) \/ BetweenPlanMsgs)) =>
            /\ p < Len(emitted)
            /\ EventReadsFindable(p + 1, ListedNames(emitted[p].kwargs, "READ_BEFORE"),
                                  metadata_before_stream_name)
            /\ Findable(ListedNames(emitted[p].kwargs, "READ_BEFORE")) = <<>>
                => Bare(emitted[p + 2]) = Bare(Msg("drop", None, NoKwargs))
    /\ \A j \in 1..Len(used) :
        HasUnknown(ListedNames(used[j], "READ_AFTER")) =>
            LET q == EmittedAt(CloseMsg(j).uid)
                n == Len(Findable(ListedNames(used[j], "READ_AFTER")))
            IN  /\ BetweenPlanMsgs => q # 0
                /\ q # 0 =>
                    /\ q > n + 2
                    /\ EventReadsFindable(q - n - 2, ListedNames(used[j], "READ_AFTER"),
                                          metadata_after_stream_name)
    /\ BetweenPlanMsgs =>
        \A i \in 1..Len(original) :
            /\ EmittedAt(original[i].uid) # 0
            /\ \A h \in 1..(i - 1) : EmittedAt(original[h].uid) < EmittedAt(original[i].uid)

\* C11 witness: a plan with a run whose READ_BEFORE is "nodev" (create, drop)
\* and whose READ_AFTER is "rand,det4", nested in a run whose READ_BEFORE is
\* "det4,nodev,rand" and whose READ_AFTER is "nodev,det4" (create, read det4,
\* save), has closed both runs and ended.
C11_Witness ==
    /\ ~running
    /\ Len(original) = 4
    /\ Len(closes) = 2
    /\ NestedUpTo(2)
    /\ ListedNames(original[1].kwargs, "READ_AFTER") = << <<"n", "o", "d", "e", "v">>, S_det4 >>
    /\ ListedNames(original[2].kwargs, "READ_BEFORE") = << <<"n", "o", "d", "e", "v">> >>
    /\ BareSeq(SubSeq(emitted, 2, 5))
       = ExpectedStream(<<S_det4, S_rand>>, "baseline_before")
    /\ BareSeq(SubSeq(emitted, 7, 8)) = ExpectedStream(<<>>, "baseline_before")
    /\ emitted[Len(emitted)] = original[4]
    /\ BareSeq(SubSeq(emitted, Len(emitted) - 3, Len(emitted) - 1))
       = ExpectedStream(<<S_det4>>, "baseline_after")

----------------------------------------------------------------------------
(* Vocabulary of the statements about the plan CLIs.                       *)

\* The first 3k tokens are k triples of a motor name, a start and a stop.
AreTriples(tokens, k) ==
    /\ k >= 1
    /\ 3 * k <= Len(tokens)
    /\ \A i \in 1..(3 * k) :
        IF i % 3 = 1 THEN float(tokens[i]) = None ELSE float(tokens[i]) # None

\* The k triples as plan arguments, in the order typed.
TripleArguments(tokens, k) ==
    [i \in 1..(3 * k) |-> IF i % 3 = 1 THEN [str |-> tokens[i]] ELSE float(tokens[i])[1]]

IsRaised(value) == DOMAIN value = {"raised"} \/ DOMAIN value = {"raised", "message"}

----------------------------------------------------------------------------
(* Statements about plans.py *)

C14_WrongShapeRejected ==
    (/\ plan.method = "PlanNDScan._create_plan_arguments"
     /\ (Len(namespace.args) < 4 \/ Len(namespace.args) % 3 = 0)) =>
        plan_result = [raised |-> "AssertionError",
                       message |-> "Not enough arguments have been passed."]

\* The numbers of a list or tuple literal: "[" or "(", numbers separated by
\* commas (a last comma allowed), and the matching "]" or ")"; None for any
\* other text. "(1)" is a number in parentheses, not a tuple.
ListItems(text) ==
    IF Len(text) < 3 THEN None
    ELSE LET opening == Head(text)
             closing == text[Len(text)]
             pieces == split(SubSeq(text, 2, Len(text) - 1), ",")
             last_comma == Len(pieces) > 1 /\ pieces[Len(pieces)] = <<>>
             items == IF last_comma THEN SubSeq(pieces, 1, Len(pieces) - 1) ELSE pieces
         IN  IF ~((opening = "[" /\ closing = "]") \/ (opening = "(" /\ closing = ")"))
             THEN None
             ELSE IF \E i \in 1..Len(items) : float(items[i]) = None THEN None
             ELSE IF opening = "(" /\ Len(pieces) = 1 THEN None
             ELSE Some([i \in 1..Len(items) |-> float(items[i])[1]])

Opens(token) == Head(token) \in {"[", "("}
Closes(token) == token[Len(token)] \in {"]", ")"}

\* A list scan line read as the statement reads it: motor names, each followed
\* by at least one position, a position being a bare number or an item of a
\* list spread over two or more tokens. The result lists the (motor,
\* position) pairs in the order typed; ok is FALSE for any other line.
RECURSIVE Typed(_, _)
Typed(tokens, state) ==
    IF ~state.ok THEN state
    ELSE IF tokens = <<>>
    THEN [state EXCEPT !.ok = state.open = None /\ state.motor # None /\ ~state.bare]
    ELSE LET token == Head(tokens)
             rest == Tail(tokens)
         IN  IF state.open # None
             THEN LET text == state.open[1] \o token
                  IN  IF Opens(token) THEN [state EXCEPT !.ok = FALSE]
                      ELSE IF ~Closes(token)
                      THEN Typed(rest, [state EXCEPT !.open = Some(text)])
                      ELSE IF ListItems(text) = None THEN [state EXCEPT !.ok = FALSE]
                      ELSE Typed(rest,
                            [state EXCEPT !.open = None, !.bare = FALSE,
                                          !.pairs = @ \o [i \in 1..Len(ListItems(text)[1]) |->
                                                [motor |-> state.motor[1],
                                                 position |-> ListItems(text)[1][i]]]])
             ELSE IF Opens(token)
             THEN IF state.motor = None \/ Closes(token) THEN [state EXCEPT !.ok = FALSE]
                  ELSE Typed(rest, [state EXCEPT !.open = Some(token)])
             ELSE IF float(token) # None
             THEN IF state.motor = None THEN [state EXCEPT !.ok = FALSE]
                  ELSE Typed(rest,
                        [state EXCEPT !.bare = FALSE,
                                      !.pairs = Append(@, [motor |-> state.motor[1],
                                                           position |-> float(token)[1]])])
             ELSE IF Closes(token) \/ state.bare THEN [state EXCEPT !.ok = FALSE]
             ELSE Typed(rest, [state EXCEPT !.motor = Some(token), !.bare = TRUE])

TypedListScan(tokens) ==
    Typed(tokens, [ok |-> TRUE, motor |-> None, open |-> None, bare |-> FALSE, pairs |-> <<>>])

\* The positions typed for one motor, in the order typed.
PositionsOf(pairs, motor) ==
    LET Of(pair) == pair.motor = motor
        own == SelectSeq(pairs, Of)
    IN  [i \in 1..Len(own) |-> own[i].position]

\* Each motor once, in order of first appearance.
RECURSIVE FirstAppearances(_, _)
FirstAppearances(pairs, seen) ==
    IF pairs = <<>> THEN <<>>
    ELSE IF Head(pairs).motor \in seen THEN FirstAppearances(Tail(pairs), seen)
    ELSE <<Head(pairs).motor>> \o FirstAppearances(Tail(pairs), seen \cup {Head(pairs).motor})

\* C15: for a list scan line in which every motor name is followed by its
\* positions, bare numbers or lists spread over several tokens, RangeAction
\* gives namespace.args listing each motor once, in order of first appearance,
\* each followed by the tuple of all its positions as floats in the order
\* typed.
C15_ListScanArguments ==
    (plan.method = "RangeAction.__call__" /\ TypedListScan(namespace.args).ok) =>
        LET pairs == TypedListScan(namespace.args).pairs
            motors == FirstAppearances(pairs, {})
        IN  /\ ~IsRaised(plan_result)
            /\ plan_result.args
               = [i \in 1..(2 * Len(motors)) |->
                    IF i % 2 = 1
                    THEN [positioner |-> Some(motors[(i + 1) \div 2])]
                    ELSE [tuple |-> PositionsOf(pairs, motors[i \div 2])]]

\* The plan target the statement describes: the explicit --plan_target, else
\* the single detector, else None.
ChosenPlanTarget(ns) ==
    IF ns.plan_target # None THEN ns.plan_target
    ELSE IF Len(ns.detectors) = 1 THEN Some(ns.detectors[1])
    ELSE None

\* C16: the plan target passed to a scan or mov is the explicit --plan_target
\* when one is given, otherwise the single detector when exactly one detector
\* is selected, otherwise None; the after-scan and the before-move helpers
\* give the same.
C16_PlanTargetChoice ==
    /\ plan.method \in {"get_after_plan_target_argument", "get_before_plan_target_argument"} =>
        plan_result = ChosenPlanTarget(namespace)
    /\ (plan.method = "PlanNDScan._create_plan_arguments" /\ ~IsRaised(plan_result)) =>
        plan_result.after_plan_target = ChosenPlanTarget(namespace)
    /\ plan.method = "PlanMV._create_plan_arguments" =>
        plan_result.target = ChosenPlanTarget(namespace)

\* C16 witness: with no --plan_target and the two detectors xyz and sim_det
\* selected, the after-scan helper gave None.
C16_Witness ==
    /\ plan.method = "get_after_plan_target_argument"
    /\ namespace.plan_target = None
    /\ namespace.detectors = <<S_xyz, S_sim_det>>
    /\ plan_result = None

\* C17: for scans after_plan_behavior is 'max' with --max and 'return'
\* otherwise; for mov the behavior is 'max' with --max, else 'min' with --min,
\* else None, and use_old_data is -1 exactly when the behavior is not None and
\* 0 otherwise.
C17_FlagsToBehaviours ==
    LET scan == IF namespace.max THEN "max" ELSE "return"
        mov == IF namespace.max THEN Some("max")
               ELSE IF namespace.min THEN Some("min")
               ELSE None
    IN  /\ plan.method = "get_after_plan_behavior_argument" => plan_result = scan
        /\ (plan.method = "PlanNDScan._create_plan_arguments" /\ ~IsRaised(plan_result)) =>
            plan_result.after_plan_behavior = scan
        /\ plan.method = "get_before_plan_behavior_argument" => plan_result = mov
        /\ plan.method = "PlanMV._create_plan_arguments" =>
            /\ plan_result.behavior = mov
            /\ plan_result.use_old_data = (IF mov # None THEN -1 ELSE 0)

\* C17 witness: mov with --min alone gave the behavior 'min' and use_old_data
\* -1.
C17_Witness ==
    /\ plan.method = "PlanMV._create_plan_arguments"
    /\ namespace.min
    /\ ~namespace.max
    /\ plan_result.behavior = Some("min")
    /\ plan_result.use_old_data = -1

\* C18: parse_hdf_args builds the file name from the user's --hdf_file_name
\* when it is given and from the template only when it is not, and returns
\* the user's --hdf_file_path when given and the current directory otherwise.
C18_UserNameWinsOverTemplate ==
    (plan.method = "parse_hdf_args" /\ ~IsRaised(plan_result)) =>
        /\ plan_result.hdf_file_name
           = strftime(plan.now, IF namespace.hdf_file_name # None
                                THEN namespace.hdf_file_name[1]
                                ELSE plan.template[1])
        /\ plan_result.hdf_file_path
           = (IF namespace.hdf_file_path # None THEN namespace.hdf_file_path[1] ELSE getcwd)

\* C18 witness: with --hdf_file_name abacaxi_%S, the template %H_cenoura and
\* no --hdf_file_path, at 07:30:59 the result was abacaxi_59 in the current
\* directory.
C18_Witness ==
    /\ plan.method = "parse_hdf_args"
    /\ plan.template = Some(<<"%", "H", "_", "c", "e", "n", "o", "u", "r", "a">>)
    /\ namespace.hdf_file_name # None
    /\ namespace.hdf_file_path = None
    /\ plan_result = [hdf_file_name |-> <<"a", "b", "a", "c", "a", "x", "i", "_", "5", "9">>,
                      hdf_file_path |-> getcwd]

----------------------------------------------------------------------------
(* Statements about the handling of a refused plan submission *)

\* C19: when submitting a plan fails with RequestFailedError, the handler asks
\* for a retry only when the server reports pause_pending, and only after it
\* has destroyed and recreated the environment; when no pause is pending it
\* returns EXIT_QUIET and does not touch the environment.
C19_RetryOnlyWhenPausePending ==
    [][(pc = "failed" /\ pc' = "handled") =>
        IF pause_pending'
        THEN /\ handler_return' = Some(RETRY)
             /\ environment'.destroyed = environment.destroyed + 1
             /\ environment'.created = environment.created + 1
        ELSE /\ handler_return' = Some(EXIT_QUIET)
             /\ environment' = environment]_vars

\* C19 witness: the first submission of a command failed with a pause pending;
\* the environment was destroyed and created once and the handler returned
\* RETRY.
C19_Witness ==
    /\ pc = "handled"
    /\ submissions = <<1>>
    /\ pause_pending
    /\ environment = [destroyed |-> 1, created |-> 1]
    /\ handler_return = Some(RETRY)

----------------------------------------------------------------------------
(* Further statements about plans.py *)

\* The line begins with a position: a bare number, or a list of numbers in
\* one or more tokens.
PositionBeforeMotor(tokens) ==
    /\ tokens # <<>>
    /\ \/ float(tokens[1]) # None
       \/ /\ Opens(tokens[1])
          /\ \E j \in 1..Len(tokens) : ListItems(join(<<>>, SubSeq(tokens, 1, j))) # None

\* C21: in a list scan a position given before any motor name, as a bare
\* number or inside a bracketed list, is rejected with 'You need to specify a
\* motor device before the list of positions.' (the Exception of
\* RangeAction.__call__) and nothing is stored under a None motor.
C21_PositionBeforeMotorRejected ==
    plan.method = "RangeAction.__call__" =>
        /\ PositionBeforeMotor(namespace.args) => plan_result = Raised("Exception")
        /\ ~IsRaised(plan_result) =>
            \A i \in 1..Len(plan_result.args) :
                "positioner" \in DOMAIN plan_result.args[i] =>
                    plan_result.args[i].positioner # None

\* A list given as one token is read as its "[" or "(" and the rest.
RECURSIVE Spread(_)
Spread(tokens) ==
    IF tokens = <<>> THEN <<>>
    ELSE LET token == Head(tokens)
         IN  (IF Len(token) >= 2 /\ Opens(token) /\ Closes(token)
              THEN <<SubSeq(token, 1, 1), Tail(token)>>
              ELSE <<token>>)
             \o Spread(Tail(tokens))

\* C22: a bracketed or parenthesised list of positions contributes all of its
\* positions to the current motor however it is split into tokens, including
\* when the whole list is one token.
C22_ListsInAnySplit ==
    (plan.method = "RangeAction.__call__" /\ TypedListScan(Spread(namespace.args)).ok) =>
        LET pairs == TypedListScan(Spread(namespace.args)).pairs
            motors == FirstAppearances(pairs, {})
        IN  /\ ~IsRaised(plan_result)
            /\ \A i \in 1..Len(motors) :
                /\ 2 * i <= Len(plan_result.args)
                /\ plan_result.args[2 * i - 1] = [positioner |-> Some(motors[i])]
                /\ plan_result.args[2 * i] = [tuple |-> PositionsOf(pairs, motors[i])]

\* C30: RangeAction carries no state from one command to the next: whenever
\* its __call__ returns or raises no partially assembled list is pending, and
\* the positions parsed for a command are those a new RangeAction gives for
\* the command's own tokens.
C30_NoStateBetweenCommands ==
    plan.method = "RangeAction.__call__" =>
        /\ current_partial_list = None
        /\ plan_result = RangeAction(namespace.args)

----------------------------------------------------------------------------
(* Statements about EScanRangeAction *)

\* The ranges stored under one key (none while the key is None).
StoredRanges(ranges) == IF ranges = None THEN <<>> ELSE ranges[1]

\* The indices of all the ranges stored.
StoredIndices(ns) ==
    {StoredRanges(ns.e)[i].index : i \in 1..Len(StoredRanges(ns.e))}
    \cup {StoredRanges(ns.k)[i].index : i \in 1..Len(StoredRanges(ns.k))}

RangesStored(ns) == Len(StoredRanges(ns.e)) + Len(StoredRanges(ns.k))

Increasing(ranges) ==
    \A i, j \in 1..Len(ranges) : i < j => ranges[i].index < ranges[j].index

\* The counter, 0 while it is not set.
RangeCounter(ns) == IF ns.current_range_index = None THEN 0 ELSE ns.current_range_index[1]

\* C23: the ranges of one command are numbered by one counter shared by -e
\* and -k: the i-th accepted range option (from 0, in command-line order) is
\* stored with index i, so the indices are unique across the e and k lists,
\* together form 0..n-1 and increase within each list.
C23_SharedRangeCounter ==
    LET e == StoredRanges(namespace.e)
        k == StoredRanges(namespace.k)
        n == RangesStored(namespace)
    IN  /\ StoredIndices(namespace) = 0..(n - 1)
        /\ \A i \in 1..Len(e), j \in 1..Len(k) : e[i].index # k[j].index
        /\ Increasing(e)
        /\ Increasing(k)
        /\ (plan.method = "EScanRangeAction.__call__" /\ ~IsRaised(plan_result)) =>
            LET own == IF plan.option_string = "-e" THEN e ELSE k
            IN  /\ own # <<>>
                /\ own[Len(own)].index = RangesStored(plan.before)
                /\ own[Len(own)].index = n - 1

\* C23 witness: "-e ... -k ... -e ..." stored the energy ranges 0 and 2 and
\* the k-space range 1.
C23_Witness ==
    /\ namespace.e # None
    /\ namespace.k # None
    /\ Len(namespace.e[1]) = 2
    /\ Len(namespace.k[1]) = 1
    /\ namespace.e[1][1].index = 0
    /\ namespace.k[1][1].index = 1
    /\ namespace.e[1][2].index = 2

\* C24: an -e option with other than 3 values, a -k option with other than 2
\* or 3 values and a 2-value -k given as the first range are rejected without
\* storing a range or advancing the counter; a 2-value -k given after a range
\* is stored with start None, so every stored range with start None has an
\* index >= 1 and the range with the preceding index exists.
C24_BadRangesRejected ==
    /\ plan.method = "EScanRangeAction.__call__" =>
        LET n_values == Len(plan.values)
            bad == \/ plan.option_string = "-e" /\ n_values # 3
                   \/ plan.option_string = "-k" /\ n_values \notin {2, 3}
                   \/ plan.option_string = "-k" /\ n_values = 2 /\ RangesStored(plan.before) = 0
            k == StoredRanges(namespace.k)
        IN  /\ bad =>
                /\ plan_result = Raised("Exception")
                /\ StoredRanges(namespace.e) = StoredRanges(plan.before.e)
                /\ StoredRanges(namespace.k) = StoredRanges(plan.before.k)
                /\ RangeCounter(namespace) = RangeCounter(plan.before)
            /\ (plan.option_string = "-k" /\ n_values = 2 /\ RangesStored(plan.before) > 0) =>
                /\ ~IsRaised(plan_result)
                /\ Len(k) = Len(StoredRanges(plan.before.k)) + 1
                /\ k[Len(k)].start = None
                /\ k[Len(k)].stop = plan.values[1]
                /\ k[Len(k)].step = plan.values[2]
    /\ \A key \in {"e", "k"} : \A i \in 1..Len(StoredRanges(namespace[key])) :
        StoredRanges(namespace[key])[i].start = None =>
            /\ StoredRanges(namespace[key])[i].index >= 1
            /\ StoredRanges(namespace[key])[i].index - 1 \in StoredIndices(namespace)

\* C24 witness: after one stored range, a -k with 2 values was stored with
\* start None and index 1, and then a -k with 4 values was rejected, leaving
\* the ranges and the counter as they were.
C24_Witness ==
    /\ plan.method = "EScanRangeAction.__call__"
    /\ plan.option_string = "-k"
    /\ Len(plan.values) = 4
    /\ plan_result = Raised("Exception")
    /\ namespace.k # None
    /\ Len(namespace.k[1]) = 1
    /\ namespace.k[1][1].start = None
    /\ namespace.k[1][1].index = 1
    /\ namespace.current_range_index = Some(2)
    /\ plan.before.current_range_index = Some(2)

----------------------------------------------------------------------------
(* Further statements about run_engine.py *)

\* C25: for open_run and close_run messages passed through one preprocessor
\* in which every close_run follows an unclosed open_run, the length of
\* _kwargs_for_runs (empty at first) goes up by one with every open_run and
\* down by one with every close_run, which pops exactly one entry, and does
\* not change otherwise, also from one plan to the next: it is the number of
\* runs opened and not yet closed, and zero once every run is closed.
C25_StackTracksOpenRuns ==
    [][LET sent == Len(original') = Len(original) + 1
           command == original'[Len(original')].command
       IN  /\ (sent /\ command = "open_run") =>
                kwargs_for_runs' = Append(kwargs_for_runs, original'[Len(original')].kwargs)
           /\ (sent /\ command = "close_run") =>
                /\ kwargs_for_runs # <<>>
                /\ kwargs_for_runs' = SubSeq(kwargs_for_runs, 1, Len(kwargs_for_runs) - 1)
                /\ Len(used') = Len(used) + 1
           /\ ~(sent /\ command \in {"open_run", "close_run"}) =>
                kwargs_for_runs' = kwargs_for_runs]_vars

\* C25 witness: a first plan yielded one message; a second plan on the same
\* RunEngine has opened two runs and closed both, each close_run popping one
\* entry, and the list is empty again.
C25_Witness ==
    /\ n_sent = 5
    /\ Len(original) = 4
    /\ Len(closes) = 2
    /\ plan_open = <<>>
    /\ kwargs_for_runs = <<>>
    /\ Len(used) = 2

\* The emitted message is one of the plan's own messages.
FromPlan(msg) == \E i \in 1..Len(original) : original[i].uid = msg.uid

\* C26: the preprocessor only inserts messages: the messages of the plan
\* appear in the emitted stream once each, unmodified and in their order (all
\* of them once the inserted generators are exhausted), and every other
\* emitted message is a create, read, save or drop of a metadata stream.
C26_OnlyInserts ==
    LET own == SelectSeq(emitted, FromPlan)
    IN  /\ Len(own) <= Len(original)
        /\ own = SubSeq(original, 1, Len(own))
        /\ Len(own) >= Len(original) - 1
        /\ (plan_stack = <<>> \/ PlanIsNext) => own = original
        /\ \A p \in 1..Len(emitted) :
            ~FromPlan(emitted[p]) =>
                /\ emitted[p].command \in {"create", "read", "save", "drop"}
                /\ emitted[p].command = "create" =>
                    emitted[p].kwargs.name \in {metadata_before_stream_name,
                                                metadata_after_stream_name}

\* C26 witness: a plan of open_run, checkpoint and close_run with READ_BEFORE
\* and READ_AFTER has ended; its three messages are in the emitted stream
\* among the inserted ones.
C26_Witness ==
    /\ ~running
    /\ Len(original) = 3
    /\ original[2].command = "checkpoint"
    /\ SelectSeq(emitted, FromPlan) = original
    /\ Len(emitted) > 8
    /\ emitted[1] = original[1]
    /\ emitted[Len(emitted)] = original[3]

----------------------------------------------------------------------------
(* Further statements about input_processor.py *)

\* C27: in an input of several lines, a line that does not itself invoke a
\* whitelisted plan (with or without a leading '%') is returned unchanged, and
\* a line that does is given the '-d' directive exactly when the plan that
\* line invokes takes detectors.
C27_EachLineByItsOwnPlan ==
    op = "input_processor" =>
        \A i \in 1..Len(lines) :
            IF InvokedPlans(lines[i]) = {}
            THEN result[i] = lines[i]
            ELSE \A k \in InvokedPlans(lines[i]) :
                    startswith(result[i], strip(lines[i]) \o <<" ", "-", "d">>)
                        <=> TakesDetectors(k)

\* C28 as stated: every line returned by add_detectors, add_metadata,
\* add_plan_target and input_processor starts with the stripped original line.
C28_StartsWithStrippedLine ==
    op # "none" =>
        \A i \in 1..Len(lines) : startswith(result[i], strip(lines[i]))

\* C28: every line returned by add_detectors, add_metadata, add_plan_target
\* and input_processor is either the original line itself, blanks included,
\* or the stripped original line followed by what was added.
C28_UnchangedOrStrippedLineFirst ==
    op # "none" =>
        \A i \in 1..Len(lines) :
            \/ result[i] = lines[i]
            \/ /\ startswith(result[i], strip(lines[i]))
               /\ Len(result[i]) > Len(strip(lines[i]))

\* C28 witness: input_processor rewrote " mov x 1 " and a second line: the
\* blanks around the first are gone and the directives follow its text.
C28_Witness ==
    /\ op = "input_processor"
    /\ Len(lines) = 2
    /\ lines[1] # strip(lines[1])
    /\ lstrip(lines[1]) # lines[1]
    /\ result[1] # lines[1]
    /\ result[2] # lines[2]
    /\ startswith(result[1], strip(lines[1]) \o <<" ", "-", "-", "m", "d", " ">>)

\* The line is a whitelisted plan name alone, or '%' and the name.
BarePlanName(line) ==
    \E k \in 1..Len(whitelisted_plan_list) :
        \/ line = whitelisted_plan_list[k].user_name
        \/ line = <<"%">> \o whitelisted_plan_list[k].user_name

\* C29: a line that is only a whitelisted plan name, with no blank or
\* arguments after it ("count", "%count"), is returned by input_processor as
\* it was, without any directive.
C29_BarePlanNameUntouched ==
    op = "input_processor" =>
        \A i \in 1..Len(lines) : BarePlanName(lines[i]) => result[i] = lines[i]

============================================================================
